---- MODULE Spec2Model ----
(***************************************************************************)
(* Chronicles of Aether Gate: the turn-based combat engine.                *)
(*                                                                         *)
(* The model follows src/engine/combat.py (CombatEngine),                  *)
(* src/models/player.py (Player) and src/models/enemy.py (Enemy and its    *)
(* three subclasses).  One state of the model is one state of a            *)
(* CombatEngine object together with the Player and Enemy it owns.  One     *)
(* step is one call of a public CombatEngine method, rejected or not.      *)
(*                                                                         *)
(* Python dicts keep insertion order and Player.update_status_effects      *)
(* applies its periodic effects in that order, so a dict is a sequence of  *)
(* <<key, value>> pairs with distinct keys.                                *)
(*                                                                         *)
(* The combat log holds one tag per appended line; the numbers and names   *)
(* that the f-strings interpolate are left out of the tag.                 *)
(***************************************************************************)
EXTENDS Integers, Sequences, FiniteSets, TLC

VARIABLES
    player,         \* the Player object (src/models/player.py)
    enemy,          \* the Enemy object built by create_enemy
    turn_queue,     \* CombatEngine.turn_queue
    current_turn,   \* CombatEngine.current_turn
    combat_log,     \* CombatEngine.combat_log
    combat_active,  \* CombatEngine.combat_active
    last,           \* the last call: which method, what it returned
    calls,          \* the number of direct calls of Player and Enemy methods
    game            \* the Game object's combat attributes (src/main.py)

vars == <<player, enemy, turn_queue, current_turn, combat_log, combat_active, last, calls,
          game>>

----------------------------------------------------------------------------
(* Bounds of the model *)

\* no call is made once the turn counter has reached this value
MaxTurns == 8

\* the number of direct calls of Player and Enemy methods in one run
MaxCalls == 2

\* the largest damage argument of a direct take_damage call
MaxDamage == 10

\* the number of enemy-turn callbacks that can be waiting at once
MaxPending == 2

\* most calls of Player methods in one run of EquipSpec
MaxEquipCalls == 3

\* most turns of an encounter fought with basic attacks only (DuelSpec)
MaxDuelTurns == 80

----------------------------------------------------------------------------
(* Arithmetic helpers *)

Max(a, b) == IF a >= b THEN a ELSE b

Min(a, b) == IF a <= b THEN a ELSE b

\* int(x * n / d) of a non-negative integer x: Python's int() truncates
MulDiv(x, n, d) == (x * n) \div d

----------------------------------------------------------------------------
(* Python dict as an insertion-ordered sequence of <<key, value>> pairs *)

DictKeys(d) == {d[i][1] : i \in 1..Len(d)}

DictHas(d, k) == k \in DictKeys(d)

DictGet(d, k) == d[CHOOSE i \in 1..Len(d) : d[i][1] = k][2]

\* d[k] = v : an existing key keeps its position
DictSet(d, k, v) ==
    IF DictHas(d, k)
    THEN [i \in 1..Len(d) |-> IF d[i][1] = k THEN <<k, v>> ELSE d[i]]
    ELSE Append(d, <<k, v>>)

\* every value decremented by one
DictDecrement(d) == [i \in 1..Len(d) |-> <<d[i][1], d[i][2] - 1>>]

\* the entries whose value is not negative
DictDropExpired_keeps_zero(d) == SelectSeq(d, LAMBDA kv : kv[2] >= 0)

\* the entries whose value is still positive
DictDropExpired(d) == SelectSeq(d, LAMBDA kv : kv[2] > 0)

----------------------------------------------------------------------------
(* Player (src/models/player.py) *)

\* Player.take_damage without the minimum of 1
Player_take_damage_no_minimum(p, damage) ==
    LET actual_damage == Max(0, damage - p.defense)
    IN  [p |-> [p EXCEPT !.hp = Max(0, p.hp - actual_damage),
                         !.total_damage_taken = p.total_damage_taken + actual_damage],
         actual |-> actual_damage]

\* Player.take_damage: returns [p |-> the player afterwards, actual |-> damage]
Player_take_damage(p, damage) ==
    LET actual_damage == Max(1, damage - p.defense)
    IN  [p |-> [p EXCEPT !.hp = Max(0, p.hp - actual_damage),
                         !.total_damage_taken = p.total_damage_taken + actual_damage],
         actual |-> actual_damage]

\* Player.heal without the clamp to max_hp
Player_heal_unclamped(p, amount) ==
    [p |-> [p EXCEPT !.hp = p.hp + amount], healed |-> amount]

\* Player.heal
Player_heal(p, amount) ==
    LET new_hp == Min(p.max_hp, p.hp + amount)
    IN  [p |-> [p EXCEPT !.hp = new_hp], healed |-> new_hp - p.hp]

\* Player.restore_focus
Player_restore_focus(p, amount) ==
    LET new_focus == Min(p.max_focus, p.focus + amount)
    IN  [p |-> [p EXCEPT !.focus = new_focus], restored |-> new_focus - p.focus]

\* Player.spend_focus debiting before it checks
Player_spend_focus_debit_first(p, amount) ==
    [p |-> [p EXCEPT !.focus = Max(0, p.focus - amount)], ok |-> p.focus >= amount]

\* Player.spend_focus
Player_spend_focus(p, amount) ==
    IF p.focus >= amount
    THEN [p |-> [p EXCEPT !.focus = p.focus - amount], ok |-> TRUE]
    ELSE [p |-> p, ok |-> FALSE]

\* Player.is_alive
Player_is_alive(p) == p.hp > 0

\* Player.add_status_effect
Player_add_status_effect(p, effect, duration) ==
    [p EXCEPT !.status_effects = DictSet(p.status_effects, effect, duration)]

\* Player.remove_item dropping every inventory entry with that name
Player_remove_item_every(p, item_name) ==
    [p EXCEPT !.inventory = SelectSeq(p.inventory, LAMBDA item : item.name # item_name)]

\* Player.remove_item: pops the first inventory entry with that name
Player_remove_item(p, item_name) ==
    IF \E i \in 1..Len(p.inventory) : p.inventory[i].name = item_name
    THEN LET i == CHOOSE j \in 1..Len(p.inventory) :
                     /\ p.inventory[j].name = item_name
                     /\ \A k \in 1..(j - 1) : p.inventory[k].name # item_name
         IN  [p EXCEPT !.inventory =
                 SubSeq(p.inventory, 1, i - 1) \o SubSeq(p.inventory, i + 1, Len(p.inventory))]
    ELSE p

\* the loop of Player.update_status_effects from entry i on: every duration
\* is decremented; an entry that stays positive applies its periodic effect
RECURSIVE Player_tick_from(_, _)
Player_tick_from(p, i) ==
    IF i > Len(p.status_effects) THEN p
    ELSE LET effect   == p.status_effects[i][1]
             duration == p.status_effects[i][2] - 1
             p1 == [p EXCEPT !.status_effects[i] = <<effect, duration>>]
             p2 == IF duration <= 0 THEN p1
                   ELSE IF effect = "poisoned" THEN Player_take_damage(p1, 3).p
                   ELSE IF effect = "regenerating" THEN Player_heal(p1, 5).p
                   ELSE p1
         IN  Player_tick_from(p2, i + 1)

\* Player.update_status_effects
Player_update_status_effects(p) ==
    LET p1 == Player_tick_from(p, 1)
    IN  [p1 EXCEPT !.status_effects = DictDropExpired(p1.status_effects)]

----------------------------------------------------------------------------
(* Enemy (src/models/enemy.py) *)

\* the take_damage methods with the armor plating added to the stored defense
Enemy_take_damage_armor_stored(e, damage, dodge) ==
    IF e.id = "rogue_automaton" /\ dodge
    THEN [e |-> e, actual |-> 0]
    ELSE LET armor == IF e.id = "clockwork_sentinel" THEN 2 ELSE 0
             actual_damage == Max(1, damage - (e.defense + armor))
         IN  [e |-> [e EXCEPT !.hp = Max(0, e.hp - actual_damage),
                              !.defense = e.defense + armor],
              actual |-> actual_damage]

\* Enemy.take_damage, ClockworkSentinel.take_damage, RogueAutomaton.take_damage.
\* dodge is the outcome of random.random() < evasion_chance.
Enemy_take_damage(e, damage, dodge) ==
    IF e.id = "rogue_automaton" /\ dodge
    THEN [e |-> e, actual |-> 0]
    ELSE LET armor == IF e.id = "clockwork_sentinel" THEN 2 ELSE 0
             actual_damage == Max(1, damage - (e.defense + armor))
         IN  [e |-> [e EXCEPT !.hp = Max(0, e.hp - actual_damage)],
              actual |-> actual_damage]

\* Enemy.heal returning the amount asked for
Enemy_heal_returns_amount(e, amount) ==
    [e |-> [e EXCEPT !.hp = Min(e.max_hp, e.hp + amount)], healed |-> amount]

\* Enemy.heal
Enemy_heal(e, amount) ==
    LET new_hp == Min(e.max_hp, e.hp + amount)
    IN  [e |-> [e EXCEPT !.hp = new_hp], healed |-> new_hp - e.hp]

\* Enemy.is_alive with hp >= 0 for hp > 0
Enemy_is_alive_at_zero(e) == e.hp >= 0

\* Enemy.is_alive
Enemy_is_alive(e) == e.hp > 0

\* Enemy._get_ability_focus_cost with a free ability outside the table
get_ability_focus_cost_free_default(ability_name) ==
    CASE ability_name = "power_strike"     -> 2
      [] ability_name = "defensive_stance" -> 1
      [] ability_name = "quick_strike"     -> 1
      [] ability_name = "energy_discharge" -> 3
      [] ability_name = "repair_self"      -> 2
      [] ability_name = "berserker_rage"   -> 3
      [] OTHER                             -> 0

\* Enemy._get_ability_focus_cost
get_ability_focus_cost(ability_name) ==
    CASE ability_name = "power_strike"     -> 2
      [] ability_name = "defensive_stance" -> 1
      [] ability_name = "quick_strike"     -> 1
      [] ability_name = "energy_discharge" -> 3
      [] ability_name = "repair_self"      -> 2
      [] ability_name = "berserker_rage"   -> 3
      [] OTHER                             -> 1

\* Enemy._get_ability_cooldown
get_ability_cooldown(ability_name) ==
    CASE ability_name = "power_strike"     -> 2
      [] ability_name = "defensive_stance" -> 3
      [] ability_name = "quick_strike"     -> 1
      [] ability_name = "energy_discharge" -> 4
      [] ability_name = "repair_self"      -> 3
      [] ability_name = "berserker_rage"   -> 5
      [] OTHER                             -> 2

\* ability_name in self.abilities
InAbilities(e, ability_name) ==
    \E i \in 1..Len(e.abilities) : e.abilities[i] = ability_name

\* Enemy.can_use_ability
can_use_ability(e, ability_name) ==
    /\ InAbilities(e, ability_name)
    /\ ~(/\ DictHas(e.ability_cooldowns, ability_name)
         /\ DictGet(e.ability_cooldowns, ability_name) > 0)
    /\ e.focus >= get_ability_focus_cost(ability_name)

\* Enemy._execute_ability with a berserker rage of four turns
execute_ability_long_rage(e, ability_name) ==
    CASE ability_name = "power_strike" ->
            [e |-> e, damage |-> MulDiv(e.attack, 15, 10)]
      [] ability_name = "defensive_stance" ->
            [e |-> [e EXCEPT !.status_effects = DictSet(e.status_effects, "defensive", 2)],
             damage |-> 0]
      [] ability_name = "quick_strike" ->
            [e |-> e, damage |-> MulDiv(e.attack, 8, 10)]
      [] ability_name = "energy_discharge" ->
            [e |-> e, damage |-> MulDiv(e.attack, 12, 10)]
      [] ability_name = "repair_self" ->
            [e |-> Enemy_heal(e, 15).e, damage |-> 0]
      [] ability_name = "berserker_rage" ->
            [e |-> [e EXCEPT !.status_effects = DictSet(e.status_effects, "berserker", 4)],
             damage |-> MulDiv(e.attack, 20, 10)]
      [] OTHER ->
            [e |-> e, damage |-> e.attack]

\* Enemy._execute_ability: [e, damage, tag of the description]
execute_ability(e, ability_name) ==
    CASE ability_name = "power_strike" ->
            [e |-> e, damage |-> MulDiv(e.attack, 15, 10)]
      [] ability_name = "defensive_stance" ->
            [e |-> [e EXCEPT !.status_effects = DictSet(e.status_effects, "defensive", 2)],
             damage |-> 0]
      [] ability_name = "quick_strike" ->
            [e |-> e, damage |-> MulDiv(e.attack, 8, 10)]
      [] ability_name = "energy_discharge" ->
            [e |-> e, damage |-> MulDiv(e.attack, 12, 10)]
      [] ability_name = "repair_self" ->
            [e |-> Enemy_heal(e, 15).e, damage |-> 0]
      [] ability_name = "berserker_rage" ->
            [e |-> [e EXCEPT !.status_effects = DictSet(e.status_effects, "berserker", 3)],
             damage |-> MulDiv(e.attack, 20, 10)]
      [] OTHER ->
            [e |-> e, damage |-> e.attack]

\* Enemy.use_ability paying the focus and leaving the cooldowns alone
use_ability_no_cooldown(e, ability_name) ==
    IF ~can_use_ability(e, ability_name)
    THEN [e |-> e, damage |-> 0, ok |-> FALSE]
    ELSE LET e1 == [e EXCEPT !.focus = e.focus - get_ability_focus_cost(ability_name)]
             r  == execute_ability(e1, ability_name)
         IN  [e |-> r.e, damage |-> r.damage, ok |-> TRUE]

\* Enemy.use_ability: [e, damage, ok]; ok is FALSE for the "cannot use" return
use_ability(e, ability_name) ==
    IF ~can_use_ability(e, ability_name)
    THEN [e |-> e, damage |-> 0, ok |-> FALSE]
    ELSE LET e1 == [e EXCEPT !.focus = e.focus - get_ability_focus_cost(ability_name),
                             !.ability_cooldowns =
                                 DictSet(e.ability_cooldowns, ability_name,
                                         get_ability_cooldown(ability_name))]
             r  == execute_ability(e1, ability_name)
         IN  [e |-> r.e, damage |-> r.damage, ok |-> TRUE]

\* Enemy._update_status_effects
Enemy_update_status_effects(e) ==
    [e EXCEPT !.status_effects = DictDropExpired(DictDecrement(e.status_effects))]

\* the cooldown loop at the head of Enemy.choose_action
update_cooldowns(e) ==
    [e EXCEPT !.ability_cooldowns = DictDropExpired(DictDecrement(e.ability_cooldowns))]

\* Enemy.get_effective_attack raising the attack whatever the status effects
get_effective_attack_always_raised(e) == MulDiv(e.attack, 15, 10)

\* Enemy.get_effective_attack
get_effective_attack(e) ==
    IF DictHas(e.status_effects, "berserker") THEN MulDiv(e.attack, 15, 10) ELSE e.attack

AttackAction == [type |-> "attack", name |-> "none"]

AbilityAction(ability_name) == [type |-> "ability", name |-> ability_name]

\* Enemy._aggressive_ai
aggressive_ai(e) ==
    IF can_use_ability(e, "power_strike") THEN {AbilityAction("power_strike")}
    ELSE IF can_use_ability(e, "berserker_rage") THEN {AbilityAction("berserker_rage")}
    ELSE {AttackAction}

\* Enemy._defensive_ai
defensive_ai(e) ==
    IF 10 * e.hp < 3 * e.max_hp /\ can_use_ability(e, "repair_self")
    THEN {AbilityAction("repair_self")}
    ELSE IF ~DictHas(e.status_effects, "defensive") /\ can_use_ability(e, "defensive_stance")
    THEN {AbilityAction("defensive_stance")}
    ELSE {AttackAction}

\* Enemy._tactical_ai mirroring the protagonist's focus before going for the kill
tactical_ai_stance_first(e, player_hp, player_focus) ==
    IF player_focus >= 3 /\ can_use_ability(e, "defensive_stance")
    THEN {AbilityAction("defensive_stance")}
    ELSE IF player_hp < 30 /\ can_use_ability(e, "power_strike")
    THEN {AbilityAction("power_strike")}
    ELSE IF 10 * e.hp < 4 * e.max_hp /\ can_use_ability(e, "repair_self")
    THEN {AbilityAction("repair_self")}
    ELSE IF 10 * e.hp < 4 * e.max_hp /\ can_use_ability(e, "berserker_rage")
    THEN {AbilityAction("berserker_rage")}
    ELSE {AttackAction}

\* Enemy._tactical_ai
tactical_ai(e, player_hp, player_focus) ==
    IF player_hp < 30 /\ can_use_ability(e, "power_strike")
    THEN {AbilityAction("power_strike")}
    ELSE IF player_focus >= 3 /\ can_use_ability(e, "defensive_stance")
    THEN {AbilityAction("defensive_stance")}
    ELSE IF 10 * e.hp < 4 * e.max_hp /\ can_use_ability(e, "repair_self")
    THEN {AbilityAction("repair_self")}
    ELSE IF 10 * e.hp < 4 * e.max_hp /\ can_use_ability(e, "berserker_rage")
    THEN {AbilityAction("berserker_rage")}
    ELSE {AttackAction}

\* Enemy._hit_and_run_ai
hit_and_run_ai(e) ==
    IF can_use_ability(e, "quick_strike") THEN {AbilityAction("quick_strike")}
    ELSE {AttackAction}

\* Enemy._basic_ai: every outcome of random.random() and random.choice
basic_ai(e) ==
    {AttackAction} \cup
    {AbilityAction(e.abilities[i]) :
        i \in {j \in 1..Len(e.abilities) : can_use_ability(e, e.abilities[j])}}

\* the policy dispatch of Enemy.choose_action, on the enemy after its updates
policy_actions(e, player_hp, player_focus) ==
    CASE e.ai_pattern = "aggressive"  -> aggressive_ai(e)
      [] e.ai_pattern = "defensive"   -> defensive_ai(e)
      [] e.ai_pattern = "tactical"    -> tactical_ai(e, player_hp, player_focus)
      [] e.ai_pattern = "hit_and_run" -> hit_and_run_ai(e)
      [] OTHER                        -> basic_ai(e)

\* Enemy.choose_action: the set of [e |-> enemy afterwards, action |-> choice]
Enemy_choose_action(e, player_hp, player_focus) ==
    LET e1 == Enemy_update_status_effects(update_cooldowns(e))
    IN  {[e |-> e1, action |-> a] : a \in policy_actions(e1, player_hp, player_focus)}

\* SteamGolem.choose_action
SteamGolem_choose_action(e, player_hp, player_focus) ==
    LET pressure == e.steam_pressure + 1
    IN  IF pressure >= 3
        THEN {[e |-> [e EXCEPT !.steam_pressure = 0], action |-> AbilityAction("steam_blast")]}
        ELSE Enemy_choose_action([e EXCEPT !.steam_pressure = pressure], player_hp, player_focus)

\* the choose_action the class of the enemy dispatches to
choose_action(e, player_hp, player_focus) ==
    IF e.id = "steam_golem"
    THEN SteamGolem_choose_action(e, player_hp, player_focus)
    ELSE Enemy_choose_action(e, player_hp, player_focus)

----------------------------------------------------------------------------
(* The inputs of an encounter *)

\* an inventory entry; stats holds only the keys the item declares
HealingTonic ==
    [name |-> "Healing Tonic", type |-> "consumable", stackable |-> FALSE,
     stats |-> [heal_amount |-> 30]]

AetherVial ==
    [name |-> "Aether Vial", type |-> "consumable", stackable |-> TRUE,
     stats |-> [heal_amount |-> 10, focus_restore |-> 2]]

AetherCrystal ==
    [name |-> "Aether Crystal", type |-> "key_item", stackable |-> FALSE,
     stats |-> [victory_item |-> 1]]

\* Player.__init__ : a new player
NewPlayer ==
    [hp |-> 100, max_hp |-> 100, focus |-> 5, max_focus |-> 5,
     attack |-> 10, defense |-> 5, speed |-> 6,
     inventory |-> <<>>, status_effects |-> <<>>,
     enemies_defeated |-> 0, total_damage_dealt |-> 0, total_damage_taken |-> 0]

\* the protagonists an encounter is created for: the persistent Player as
\* earlier play has left it
PlayerStarts ==
    { NewPlayer,
      \* wounded, a weapon with attack_bonus 5 equipped, carrying items
      [NewPlayer EXCEPT !.hp = 28, !.focus = 1, !.attack = 15,
                        !.inventory = <<AetherCrystal, HealingTonic, AetherVial, HealingTonic>>,
                        !.total_damage_taken = 72],
      \* almost dead and poisoned
      [NewPlayer EXCEPT !.hp = 1, !.status_effects = <<<<"poisoned", 2>>>>,
                        !.total_damage_taken = 99],
      \* poisoned and regenerating, focus spent
      [NewPlayer EXCEPT !.hp = 97, !.focus = 2,
                        !.status_effects = <<<<"poisoned", 3>>, <<"regenerating", 2>>>>,
                        !.inventory = <<HealingTonic>>],
      \* defeated in an earlier encounter and still playing
      [NewPlayer EXCEPT !.hp = 0, !.focus = 3, !.total_damage_taken = 100,
                        !.enemies_defeated = 1] }

\* the adversary templates (entries of data/enemies.json)
EnemyCatalog ==
    { [id |-> "scrap_drone", ai_pattern |-> "basic", loot |-> <<"gear">>,
       abilities |-> <<"power_strike", "energy_discharge">>,
       stats |-> [hp |-> 12, attack |-> 20, defense |-> 1, speed |-> 3, focus |-> 3]],
      [id |-> "furnace_brute", ai_pattern |-> "aggressive", loot |-> <<>>,
       abilities |-> <<"power_strike", "berserker_rage">>,
       stats |-> [hp |-> 30, attack |-> 8, defense |-> 2, speed |-> 6, focus |-> 5]],
      [id |-> "aether_tactician", ai_pattern |-> "tactical", loot |-> <<>>,
       abilities |-> <<"power_strike", "defensive_stance", "repair_self", "berserker_rage">>,
       stats |-> [hp |-> 20, attack |-> 6, defense |-> 1, speed |-> 8, focus |-> 4]],
      [id |-> "clockwork_sentinel", ai_pattern |-> "defensive", loot |-> <<"plate">>,
       abilities |-> <<"defensive_stance", "repair_self">>,
       stats |-> [hp |-> 10, attack |-> 7, defense |-> 3, speed |-> 4, focus |-> 3]],
      [id |-> "rogue_automaton", ai_pattern |-> "hit_and_run", loot |-> <<>>,
       abilities |-> <<"quick_strike">>,
       stats |-> [hp |-> 8, attack |-> 1, defense |-> 0, speed |-> 9, focus |-> 2]],
      [id |-> "steam_golem", ai_pattern |-> "aggressive", loot |-> <<"core">>,
       abilities |-> <<"power_strike">>,
       stats |-> [hp |-> 30, attack |-> 12, defense |-> 9, speed |-> 2, focus |-> 2]],
      [id |-> "steam_golem", ai_pattern |-> "hit_and_run", loot |-> <<>>,
       abilities |-> <<"quick_strike", "steam_blast">>,
       stats |-> [hp |-> 25, attack |-> 9, defense |-> 8, speed |-> 7, focus |-> 2]] }

\* create_enemy and Enemy.__init__ (SteamGolem.__init__ sets steam_pressure)
create_enemy(data) ==
    [id |-> data.id,
     hp |-> data.stats.hp, max_hp |-> data.stats.hp,
     attack |-> data.stats.attack, defense |-> data.stats.defense,
     speed |-> data.stats.speed,
     focus |-> data.stats.focus, max_focus |-> data.stats.focus,
     abilities |-> data.abilities, ability_cooldowns |-> <<>>,
     ai_pattern |-> data.ai_pattern, status_effects |-> <<>>,
     loot |-> data.loot,
     steam_pressure |-> IF data.id = "steam_golem" THEN 3 ELSE 0]

\* the ability names a caller passes to player_use_ability
AbilityNames == {"power_strike", "defensive_stance", "aether_blast", "heal", "fireball"}

\* the item names a caller passes to player_use_item
ItemNames == {"Healing Tonic", "Aether Vial", "Aether Crystal", "Rusty Key"}

----------------------------------------------------------------------------
(* CombatEngine (src/engine/combat.py) *)

\* CombatEngine._setup_turn_order without the shuffle on equal speeds
setup_turn_order_no_shuffle(p, e) ==
    IF p.speed >= e.speed THEN {<<"player", "enemy">>}
    ELSE {<<"enemy", "player">>}

\* CombatEngine._setup_turn_order: the orders it can produce
setup_turn_order(p, e) ==
    IF p.speed = e.speed THEN {<<"player", "enemy">>, <<"enemy", "player">>}
    ELSE IF p.speed >= e.speed THEN {<<"player", "enemy">>}
    ELSE {<<"enemy", "player">>}

\* CombatEngine.get_current_turn without the test of combat_active
get_current_turn_when_concluded ==
    turn_queue[(current_turn % Len(turn_queue)) + 1]

\* CombatEngine.get_current_turn reading the head of the queue
get_current_turn_head_of_queue ==
    IF ~combat_active THEN "none" ELSE turn_queue[1]

\* CombatEngine.get_current_turn
get_current_turn ==
    IF ~combat_active THEN "none"
    ELSE turn_queue[(current_turn % Len(turn_queue)) + 1]

\* CombatEngine.is_player_turn as "not the enemy's turn"
is_player_turn_not_enemy == get_current_turn # "enemy"

\* CombatEngine.is_player_turn
is_player_turn == get_current_turn = "player"

\* CombatEngine.is_combat_over
is_combat_over ==
    ~combat_active \/ ~Player_is_alive(player) \/ ~Enemy_is_alive(enemy)

\* CombatEngine.get_winner without the draw branch
get_winner_no_draw ==
    IF ~is_combat_over THEN "None"
    ELSE IF Player_is_alive(player) THEN "player"
    ELSE "enemy"

\* CombatEngine.get_winner
get_winner ==
    IF ~is_combat_over THEN "None"
    ELSE IF Player_is_alive(player) THEN "player"
    ELSE IF Enemy_is_alive(enemy) THEN "enemy"
    ELSE "draw"

\* CombatEngine._handle_victory counting the defeated enemy twice
handle_victory_counts_twice(p, e, log) ==
    LET log1 == Append(log, "enemy_defeated")
    IN  [p |-> [p EXCEPT !.enemies_defeated = p.enemies_defeated + 2],
         log |-> IF Len(e.loot) > 0 THEN Append(log1, "loot_dropped") ELSE log1]

\* CombatEngine._handle_victory: [p, log]
handle_victory(p, e, log) ==
    LET log1 == Append(log, "enemy_defeated")
    IN  [p |-> [p EXCEPT !.enemies_defeated = p.enemies_defeated + 1],
         log |-> IF Len(e.loot) > 0 THEN Append(log1, "loot_dropped") ELSE log1]

\* CombatEngine._end_turn going on to the next turn whatever the hp are
end_turn_never_concludes(p, e, log) ==
    LET p1 == Player_update_status_effects(p)
        e1 == Enemy_update_status_effects(e)
    IN  [p |-> p1, e |-> e1, log |-> log,
         turn |-> current_turn + 1, active |-> combat_active]

\* CombatEngine._end_turn checking for the end of combat before the tick
end_turn_check_first(p, e, log) ==
    LET p1 == Player_update_status_effects(p)
        e1 == Enemy_update_status_effects(e)
    IN  IF ~Player_is_alive(p)
        THEN [p |-> p1, e |-> e1, log |-> Append(log, "player_defeated"),
              turn |-> current_turn, active |-> FALSE]
        ELSE IF ~Enemy_is_alive(e)
        THEN LET v == handle_victory(p1, e1, log)
             IN  [p |-> v.p, e |-> e1, log |-> v.log,
                  turn |-> current_turn, active |-> FALSE]
        ELSE [p |-> p1, e |-> e1, log |-> log,
              turn |-> current_turn + 1, active |-> combat_active]

\* CombatEngine._end_turn without the increment of current_turn
end_turn_no_increment(p, e, log) ==
    LET p1 == Player_update_status_effects(p)
        e1 == Enemy_update_status_effects(e)
    IN  IF ~Player_is_alive(p1)
        THEN [p |-> p1, e |-> e1, log |-> Append(log, "player_defeated"),
              turn |-> current_turn, active |-> FALSE]
        ELSE IF ~Enemy_is_alive(e1)
        THEN LET v == handle_victory(p1, e1, log)
             IN  [p |-> v.p, e |-> e1, log |-> v.log,
                  turn |-> current_turn, active |-> FALSE]
        ELSE [p |-> p1, e |-> e1, log |-> log,
              turn |-> current_turn, active |-> combat_active]

\* CombatEngine._end_turn, on the player, enemy and log the action has left
end_turn(p, e, log) ==
    LET p1 == Player_update_status_effects(p)
        e1 == Enemy_update_status_effects(e)
    IN  IF ~Player_is_alive(p1)
        THEN [p |-> p1, e |-> e1, log |-> Append(log, "player_defeated"),
              turn |-> current_turn, active |-> FALSE]
        ELSE IF ~Enemy_is_alive(e1)
        THEN LET v == handle_victory(p1, e1, log)
             IN  [p |-> v.p, e |-> e1, log |-> v.log,
                  turn |-> current_turn, active |-> FALSE]
        ELSE [p |-> p1, e |-> e1, log |-> log,
              turn |-> current_turn + 1, active |-> combat_active]

\* the assignment of what _end_turn and the action before it have produced
Commit(t) ==
    /\ player' = t.p
    /\ enemy' = t.e
    /\ combat_log' = t.log
    /\ current_turn' = t.turn
    /\ combat_active' = t.active

\* a call that returns a failure message and touches nothing
Reject(op, outcome, arg) ==
    /\ last' = [op |-> op, outcome |-> outcome, arg |-> arg, usable |-> TRUE]
    /\ UNCHANGED <<player, enemy, turn_queue, current_turn, combat_log, combat_active>>

\* the abilities table in player_use_ability; num is damage_multiplier times
\* ten for a damaging ability and heal_amount for heal
player_abilities ==
    [power_strike     |-> [focus_cost |-> 2, kind |-> "damage", num |-> 15],
     defensive_stance |-> [focus_cost |-> 1, kind |-> "stance", num |-> 0],
     aether_blast     |-> [focus_cost |-> 3, kind |-> "damage", num |-> 13],
     heal             |-> [focus_cost |-> 2, kind |-> "heal",   num |-> 25]]

\* the body of CombatEngine.player_attack
resolve_player_attack ==
    /\ IF ~is_player_turn
       THEN Reject("player_attack", "not_your_turn", "none")
       ELSE \E dodge \in BOOLEAN :
            LET d == Enemy_take_damage(enemy, player.attack, dodge)
                p1 == [player EXCEPT !.total_damage_dealt =
                                         player.total_damage_dealt + d.actual]
            IN  /\ (dodge => enemy.id = "rogue_automaton")
                /\ Commit(end_turn(p1, d.e, Append(combat_log, "player_attack")))
                /\ last' = [op |-> "player_attack", outcome |-> "ok",
                            arg |-> "none", usable |-> TRUE]
                /\ UNCHANGED turn_queue

\* CombatEngine.player_attack
player_attack ==
    /\ current_turn < MaxTurns
    /\ resolve_player_attack

\* CombatEngine.player_use_ability
player_use_ability(ability_name) ==
    /\ current_turn < MaxTurns
    /\ IF ~is_player_turn
       THEN Reject("player_use_ability", "not_your_turn", ability_name)
       ELSE IF ability_name \notin DOMAIN player_abilities
       THEN Reject("player_use_ability", "unknown_ability", ability_name)
       ELSE LET ability == player_abilities[ability_name]
                s == Player_spend_focus(player, ability.focus_cost)
            IN  IF ~s.ok
                THEN /\ player' = s.p
                     /\ last' = [op |-> "player_use_ability", outcome |-> "not_enough_focus",
                                 arg |-> ability_name, usable |-> TRUE]
                     /\ UNCHANGED <<enemy, turn_queue, current_turn, combat_log, combat_active>>
                ELSE \E dodge \in BOOLEAN :
                     LET d == Enemy_take_damage(enemy, MulDiv(s.p.attack, ability.num, 10), dodge)
                         r == IF ability_name = "heal"
                              THEN [p |-> Player_heal(s.p, ability.num).p, e |-> enemy]
                              ELSE IF ability_name = "defensive_stance"
                              THEN [p |-> Player_add_status_effect(s.p, "defensive", 2),
                                    e |-> enemy]
                              ELSE [p |-> [s.p EXCEPT !.total_damage_dealt =
                                               s.p.total_damage_dealt + d.actual],
                                    e |-> d.e]
                     IN  /\ (dodge => (enemy.id = "rogue_automaton" /\ ability.kind = "damage"))
                         /\ Commit(end_turn(r.p, r.e, Append(combat_log, "player_ability")))
                         /\ last' = [op |-> "player_use_ability", outcome |-> "ok",
                                     arg |-> ability_name, usable |-> TRUE]
                         /\ UNCHANGED turn_queue

\* CombatEngine._use_consumable_item
use_consumable_item(p, item) ==
    LET p1 == IF "heal_amount" \in DOMAIN item.stats
              THEN Player_heal(p, item.stats.heal_amount).p ELSE p
    IN  IF "focus_restore" \in DOMAIN item.stats
        THEN Player_restore_focus(p1, item.stats.focus_restore).p ELSE p1

\* the loop of player_use_item matching on the name alone
UsableAt_any_type(p, item_name) ==
    {i \in 1..Len(p.inventory) : p.inventory[i].name = item_name}

\* the inventory positions the loop of player_use_item stops at
UsableAt(p, item_name) ==
    {i \in 1..Len(p.inventory) :
        p.inventory[i].name = item_name /\ p.inventory[i].type = "consumable"}

\* CombatEngine.player_use_item
player_use_item(item_name) ==
    /\ current_turn < MaxTurns
    /\ IF ~is_player_turn
       THEN Reject("player_use_item", "not_your_turn", item_name)
       ELSE IF UsableAt(player, item_name) = {}
       THEN Reject("player_use_item", "not_found", item_name)
       ELSE LET i == CHOOSE j \in UsableAt(player, item_name) :
                         \A k \in UsableAt(player, item_name) : j <= k
                item == player.inventory[i]
                p1 == use_consumable_item(player, item)
                p2 == IF ~item.stackable THEN Player_remove_item(p1, item_name) ELSE p1
            IN  /\ Commit(end_turn(p2, enemy, Append(combat_log, "player_item")))
                /\ last' = [op |-> "player_use_item", outcome |-> "ok",
                            arg |-> item_name, usable |-> TRUE]
                /\ UNCHANGED turn_queue

\* the body of CombatEngine.enemy_turn
resolve_enemy_turn ==
    /\ IF get_current_turn # "enemy"
       THEN Reject("enemy_turn", "not_enemy_turn", "none")
       ELSE \E c \in choose_action(enemy, player.hp, player.focus) :
            LET u == use_ability(c.e, c.action.name)
                r == IF c.action.type = "attack"
                     THEN [p |-> Player_take_damage(player, get_effective_attack(c.e)).p,
                           e |-> c.e, tag |-> "enemy_attack"]
                     ELSE [p |-> IF u.damage > 0
                                 THEN Player_take_damage(player, u.damage).p
                                 ELSE player,
                           e |-> u.e,
                           tag |-> IF u.ok THEN "enemy_ability" ELSE "enemy_cannot_use"]
            IN  /\ Commit(end_turn(r.p, r.e, Append(combat_log, r.tag)))
                /\ last' = [op |-> "enemy_turn",
                            outcome |-> IF c.action.type = "attack" \/ u.ok
                                        THEN "ok" ELSE "cannot_use",
                            arg |-> c.action.name,
                            usable |-> (c.action.type = "attack"
                                        \/ can_use_ability(c.e, c.action.name))]
                /\ UNCHANGED turn_queue

\* CombatEngine.enemy_turn
enemy_turn ==
    /\ current_turn < MaxTurns
    /\ resolve_enemy_turn

----------------------------------------------------------------------------
(* The specification *)

\* a Game with no combat_engine attribute and no callback scheduled
NoGame == [combat_engine |-> FALSE, pending |-> 0, ended_as |-> "none"]

\* CombatEngine.__init__
Init ==
    /\ player \in PlayerStarts
    /\ \E data \in EnemyCatalog : enemy = create_enemy(data)
    /\ turn_queue \in setup_turn_order(player, enemy)
    /\ current_turn = 0
    /\ combat_log = <<"turn_order", "combat_begins">>
    /\ combat_active = TRUE
    /\ last = [op |-> "init", outcome |-> "ok", arg |-> "none", usable |-> TRUE]
    /\ calls = 0
    /\ game = NoGame

\* the engine's methods called on their own, with no Game around them
call_player_attack == player_attack /\ UNCHANGED <<calls, game>>

call_player_use_ability(ability_name) ==
    player_use_ability(ability_name) /\ UNCHANGED <<calls, game>>

call_player_use_item(item_name) ==
    player_use_item(item_name) /\ UNCHANGED <<calls, game>>

call_enemy_turn == enemy_turn /\ UNCHANGED <<calls, game>>

Next ==
    \/ call_player_attack
    \/ \E ability_name \in AbilityNames : call_player_use_ability(ability_name)
    \/ \E item_name \in ItemNames : call_player_use_item(item_name)
    \/ call_enemy_turn

Spec == Init /\ [][Next]_vars

----------------------------------------------------------------------------
(* The methods of Player and Enemy called one at a time, as the engine and  *)
(* the tests of src/tests/test_models.py call them.  last.arg is the        *)
(* argument of the call and last.outcome the value it returned.             *)

\* the players the methods are called on
UnitPlayers ==
    PlayerStarts \cup
    { \* test_player_damage_and_heal
      [NewPlayer EXCEPT !.defense = 2, !.hp = 50],
      \* an accessory with defense_bonus 3 equipped, poisoned for one more turn
      [NewPlayer EXCEPT !.defense = 8, !.hp = 40, !.focus = 4,
                        !.status_effects = <<<<"poisoned", 1>>>>],
      \* poisoned for two more turns
      [NewPlayer EXCEPT !.hp = 60, !.status_effects = <<<<"poisoned", 2>>>>] }

\* the adversaries the methods are called on: as created, and as a fight
\* leaves them one tick before an effect runs out (the brute after
\* power_strike and berserker_rage, the sentinel after defensive_stance)
UnitEnemies ==
    {create_enemy(data) : data \in EnemyCatalog} \cup
    {[create_enemy(data) EXCEPT
          !.focus = 0,
          !.status_effects = <<<<"berserker", 1>>>>,
          !.ability_cooldowns = <<<<"power_strike", 1>>, <<"berserker_rage", 5>>>>] :
       data \in {d \in EnemyCatalog : d.id = "furnace_brute"}} \cup
    {[create_enemy(data) EXCEPT
          !.focus = 2,
          !.status_effects = <<<<"defensive", 1>>>>,
          !.ability_cooldowns = <<<<"defensive_stance", 3>>>>] :
       data \in {d \in EnemyCatalog : d.id = "clockwork_sentinel"}}

\* the damage arguments
DamageValues == (0..MaxDamage) \cup {20}

\* the heal arguments
HealAmounts == {0, 5, 15, 30}

\* the ability names passed to Enemy.use_ability
UseAbilityNames ==
    {"power_strike", "defensive_stance", "quick_strike", "energy_discharge",
     "repair_self", "berserker_rage", "steam_blast"}

\* a direct call has been made: the engine variables stay as they are
Called(op, arg, value) ==
    /\ last' = [op |-> op, outcome |-> value, arg |-> arg, usable |-> TRUE]
    /\ calls' = calls + 1
    /\ UNCHANGED <<turn_queue, current_turn, combat_log, combat_active, game>>

\* p.take_damage(damage)
call_Player_take_damage(damage) ==
    /\ calls < MaxCalls
    /\ player' = Player_take_damage(player, damage).p
    /\ Called("Player.take_damage", damage, Player_take_damage(player, damage).actual)
    /\ UNCHANGED enemy

\* p.heal(amount)
call_Player_heal(amount) ==
    /\ calls < MaxCalls
    /\ player' = Player_heal(player, amount).p
    /\ Called("Player.heal", amount, Player_heal(player, amount).healed)
    /\ UNCHANGED enemy

\* p.add_status_effect(effect, duration)
call_Player_add_status_effect(effect, duration) ==
    /\ calls < MaxCalls
    /\ player' = Player_add_status_effect(player, effect, duration)
    /\ Called("Player.add_status_effect", effect, duration)
    /\ UNCHANGED enemy

\* p.update_status_effects()
call_Player_update_status_effects ==
    /\ calls < MaxCalls
    /\ player' = Player_update_status_effects(player)
    /\ Called("Player.update_status_effects", "none", "none")
    /\ UNCHANGED enemy

\* e.take_damage(damage)
call_Enemy_take_damage(damage) ==
    /\ calls < MaxCalls
    /\ \E dodge \in BOOLEAN :
          /\ dodge => enemy.id = "rogue_automaton"
          /\ enemy' = Enemy_take_damage(enemy, damage, dodge).e
          /\ Called("Enemy.take_damage", damage, Enemy_take_damage(enemy, damage, dodge).actual)
    /\ UNCHANGED player

\* e.heal(amount)
call_Enemy_heal(amount) ==
    /\ calls < MaxCalls
    /\ enemy' = Enemy_heal(enemy, amount).e
    /\ Called("Enemy.heal", amount, Enemy_heal(enemy, amount).healed)
    /\ UNCHANGED player

\* e.use_ability(ability_name): the value is the damage of the returned pair
call_Enemy_use_ability(ability_name) ==
    /\ calls < MaxCalls
    /\ enemy' = use_ability(enemy, ability_name).e
    /\ Called("Enemy.use_ability", ability_name, use_ability(enemy, ability_name).damage)
    /\ UNCHANGED player

\* e.choose_action(p.hp, p.defense, p.focus): the value is the chosen name
call_Enemy_choose_action ==
    /\ calls < MaxCalls
    /\ \E c \in choose_action(enemy, player.hp, player.focus) :
          /\ enemy' = c.e
          /\ Called("Enemy.choose_action", "none", c.action.name)
    /\ UNCHANGED player

\* e._update_status_effects()
call_Enemy_update_status_effects ==
    /\ calls < MaxCalls
    /\ enemy' = Enemy_update_status_effects(enemy)
    /\ Called("Enemy._update_status_effects", "none", "none")
    /\ UNCHANGED player

\* a Player and an Enemy, no CombatEngine
UnitInit ==
    /\ player \in UnitPlayers
    /\ enemy \in UnitEnemies
    /\ turn_queue = <<>>
    /\ current_turn = 0
    /\ combat_log = <<>>
    /\ combat_active = FALSE
    /\ last = [op |-> "init", outcome |-> "ok", arg |-> "none", usable |-> TRUE]
    /\ calls = 0
    /\ game = NoGame

UnitNext ==
    \/ \E damage \in DamageValues : call_Player_take_damage(damage)
    \/ \E amount \in HealAmounts : call_Player_heal(amount)
    \/ \E effect \in {"poisoned", "regenerating"}, duration \in 1..2 :
           call_Player_add_status_effect(effect, duration)
    \/ call_Player_update_status_effects
    \/ \E damage \in DamageValues : call_Enemy_take_damage(damage)
    \/ \E amount \in HealAmounts : call_Enemy_heal(amount)
    \/ \E ability_name \in UseAbilityNames : call_Enemy_use_ability(ability_name)
    \/ call_Enemy_choose_action
    \/ call_Enemy_update_status_effects

UnitSpec == UnitInit /\ [][UnitNext]_vars

----------------------------------------------------------------------------
(* The Game object of src/main.py around one encounter: the callbacks of    *)
(* the combat window's buttons and the enemy-turn callbacks that            *)
(* root.after has scheduled.  Tk runs one callback at a time, in any order  *)
(* the delays and the clicks allow.                                         *)

\* Game._end_combat(winner) closing the window and keeping combat_engine
end_combat_keeps_engine(g, winner) ==
    IF winner \in {"enemy", "fled"} THEN [g EXCEPT !.ended_as = winner] ELSE g

\* Game._end_combat(winner) on the combat attributes g
end_combat(g, winner) ==
    IF winner \in {"enemy", "fled"}
    THEN [g EXCEPT !.combat_engine = FALSE, !.ended_as = winner]
    ELSE g

\* Game._process_combat_turn, run on the state the engine call has left
process_combat_turn ==
    IF is_combat_over'
    THEN IF get_winner' = "player"
         THEN game' = [game EXCEPT !.combat_engine = FALSE, !.ended_as = "player"]
         ELSE game' = end_combat(game, get_winner')
    ELSE IF ~is_player_turn'
         THEN game' = [game EXCEPT !.pending = game.pending + 1]
         ELSE game' = game

\* Game._combat_attack
combat_attack ==
    /\ game.combat_engine
    /\ game.pending < MaxPending
    /\ player_attack
    /\ process_combat_turn
    /\ UNCHANGED calls

\* Game._combat_ability
combat_ability(ability_name) ==
    /\ game.combat_engine
    /\ game.pending < MaxPending
    /\ player_use_ability(ability_name)
    /\ process_combat_turn
    /\ UNCHANGED calls

\* Game._combat_item
combat_item(item_name) ==
    /\ game.combat_engine
    /\ game.pending < MaxPending
    /\ player_use_item(item_name)
    /\ process_combat_turn
    /\ UNCHANGED calls

\* Game._combat_flee
combat_flee ==
    /\ game.combat_engine
    /\ game' = end_combat(game, "fled")
    /\ last' = [op |-> "combat_flee", outcome |-> "ok", arg |-> "none", usable |-> TRUE]
    /\ UNCHANGED <<player, enemy, turn_queue, current_turn, combat_log, combat_active, calls>>

\* Game._enemy_turn, run by a scheduled callback
Game_enemy_turn ==
    /\ game.pending > 0
    /\ IF game.combat_engine
       THEN /\ enemy_turn
            /\ LET g == [game EXCEPT !.pending = game.pending - 1]
               IN  game' = IF is_combat_over' THEN end_combat(g, get_winner') ELSE g
       ELSE /\ game' = [game EXCEPT !.pending = game.pending - 1]
            /\ last' = [op |-> "enemy_turn", outcome |-> "no_engine", arg |-> "none",
                        usable |-> TRUE]
            /\ UNCHANGED <<player, enemy, turn_queue, current_turn, combat_log,
                           combat_active>>
    /\ UNCHANGED calls

\* Game.start_combat
GameInit ==
    /\ player \in PlayerStarts
    /\ \E data \in EnemyCatalog : enemy = create_enemy(data)
    /\ turn_queue \in setup_turn_order(player, enemy)
    /\ current_turn = 0
    /\ combat_log = <<"turn_order", "combat_begins">>
    /\ combat_active = TRUE
    /\ last = [op |-> "init", outcome |-> "ok", arg |-> "none", usable |-> TRUE]
    /\ calls = 0
    /\ game = [combat_engine |-> TRUE,
               pending |-> IF turn_queue[1] = "player" THEN 0 ELSE 1,
               ended_as |-> "none"]

GameNext ==
    \/ combat_attack
    \/ \E ability_name \in AbilityNames : combat_ability(ability_name)
    \/ \E item_name \in ItemNames : combat_item(item_name)
    \/ combat_flee
    \/ Game_enemy_turn

GameSpec == GameInit /\ [][GameNext]_vars

----------------------------------------------------------------------------
(* VictoryManager (src/engine/victory.py) and the Player attributes it      *)
(* reads.  A method returns the player as the call leaves it together with  *)
(* its result.                                                              *)

\* VictoryManager.victory_conditions
victory_conditions ==
    [aether_crystals |-> 3,
     required_rooms |-> {"entrance", "hallway", "laboratory", "armory"},
     min_enemies_defeated |-> 2]

\* the list holding name when the test holds, and nothing otherwise
Achievement(test, name) == IF test THEN <<name>> ELSE <<>>

\* VictoryManager.check_victory_conditions requiring more than three crystals
check_victory_conditions_more_than_three(p) ==
    [p |-> p, has_won |-> p.aether_crystals > 3,
     victory_type |-> IF p.aether_crystals > 3 THEN "standard" ELSE "none",
     achievements |-> <<>>]

\* VictoryManager.check_victory_conditions
check_victory_conditions(p) ==
    LET crystals_needed == victory_conditions.aether_crystals
        required_rooms == victory_conditions.required_rooms
        achievements ==
            Achievement(p.aether_crystals >= crystals_needed, "Crystal Master")
            \o Achievement(required_rooms \subseteq p.visited_rooms, "Explorer")
            \o Achievement(p.enemies_defeated >= victory_conditions.min_enemies_defeated,
                           "Warrior")
            \o Achievement(p.total_damage_taken = 0, "Untouchable")
            \o Achievement(p.total_damage_taken < 20, "Tactical Genius")
            \o Achievement(Cardinality(p.visited_rooms) >= Cardinality(required_rooms),
                           "Thorough Explorer")
        main_victory == p.aether_crystals >= crystals_needed
    IN  IF main_victory
        THEN [p |-> p, has_won |-> TRUE,
              victory_type |-> IF Len(achievements) >= 3 THEN "complete" ELSE "standard",
              achievements |-> achievements]
        ELSE [p |-> p, has_won |-> FALSE, victory_type |-> "none",
              achievements |-> achievements]

\* VictoryManager.check_defeat_condition leaving a defeated player at 1 hp
check_defeat_condition_revives(p) ==
    [p |-> [p EXCEPT !.hp = Max(1, p.hp)], defeated |-> ~Player_is_alive(p)]

\* VictoryManager.check_defeat_condition
check_defeat_condition(p) == [p |-> p, defeated |-> ~Player_is_alive(p)]

\* "aether crystal" in item.get("name", "").lower(), over the names in use
NamesAetherCrystal(name) == name \in {"Aether Crystal"}

\* Player.add_item
Player_add_item(p, item) ==
    LET p1 == IF item.type = "key_item" /\ NamesAetherCrystal(item.name)
              THEN [p EXCEPT !.aether_crystals = p.aether_crystals + 1]
              ELSE p
    IN  [p1 EXCEPT !.inventory = Append(p1.inventory, item)]

\* Player.visit_room
Player_visit_room(p, room_id) ==
    [p EXCEPT !.visited_rooms = p.visited_rooms \cup {room_id}]

\* the room ids of the game
RoomIds == {"entrance", "hallway", "laboratory", "armory", "gate_chamber"}

\* hp and total_damage_taken as fights leave them
DamageHistories ==
    { [hp |-> 100, taken |-> 0],  [hp |-> 90, taken |-> 10], [hp |-> 100, taken |-> 19],
      [hp |-> 80, taken |-> 20],  [hp |-> 0, taken |-> 100] }

\* the players the manager is asked about: a Player with its progress
\* attributes, as play has left it
ProgressPlayers ==
    { [NewPlayer EXCEPT !.hp = h.hp, !.total_damage_taken = h.taken,
                        !.enemies_defeated = defeated]
      @@ [aether_crystals |-> crystals, visited_rooms |-> visited] :
        h \in DamageHistories, defeated \in 0..3, crystals \in 0..4,
        visited \in SUBSET RoomIds }

\* there is no Enemy object
NoEnemy == [id |-> "none"]

\* a call on a Player outside combat has been made
CalledOutsideCombat(op, arg, value) ==
    /\ last' = [op |-> op, outcome |-> value, arg |-> arg, usable |-> TRUE]
    /\ calls' = calls + 1
    /\ UNCHANGED <<enemy, turn_queue, current_turn, combat_log, combat_active, game>>

\* victory_manager.check_victory_conditions(player)
call_check_victory_conditions ==
    /\ calls < MaxCalls
    /\ LET r == check_victory_conditions(player)
       IN  /\ player' = r.p
           /\ CalledOutsideCombat("check_victory_conditions", "none",
                   [has_won |-> r.has_won, victory_type |-> r.victory_type,
                    achievements |-> r.achievements])

\* victory_manager.check_defeat_condition(player)
call_check_defeat_condition ==
    /\ calls < MaxCalls
    /\ LET r == check_defeat_condition(player)
       IN  /\ player' = r.p
           /\ CalledOutsideCombat("check_defeat_condition", "none", r.defeated)

\* player.add_item(item)
call_Player_add_item(item) ==
    /\ calls < MaxCalls
    /\ player' = Player_add_item(player, item)
    /\ CalledOutsideCombat("Player.add_item", item.name, "none")

\* player.visit_room(room_id)
call_Player_visit_room(room_id) ==
    /\ calls < MaxCalls
    /\ player' = Player_visit_room(player, room_id)
    /\ CalledOutsideCombat("Player.visit_room", room_id, "none")

VictoryInit ==
    /\ player \in ProgressPlayers
    /\ enemy = NoEnemy
    /\ turn_queue = <<>>
    /\ current_turn = 0
    /\ combat_log = <<>>
    /\ combat_active = FALSE
    /\ last = [op |-> "init", outcome |-> "ok", arg |-> "none", usable |-> TRUE]
    /\ calls = 0
    /\ game = NoGame

VictoryNext ==
    \/ call_check_victory_conditions
    \/ call_check_defeat_condition
    \/ \E item \in {AetherCrystal, HealingTonic} : call_Player_add_item(item)
    \/ \E room_id \in RoomIds : call_Player_visit_room(room_id)

VictorySpec == VictoryInit /\ [][VictoryNext]_vars

----------------------------------------------------------------------------
(* The creation of an encounter: Game.start_combat, CombatEngine.__init__,  *)
(* load_enemies and Enemy.__init__ with the defaults of its data.get calls. *)
(* A catalog is the set of the entries of data/enemies.json, each with its  *)
(* key as id; a key a JSON object lacks is a field the record lacks.        *)

\* d.get(key, default)
DictGetOr(d, key, default) == IF key \in DOMAIN d THEN d[key] ELSE default

\* create_enemy(enemy_id, data) and Enemy.__init__
Enemy_init(enemy_id, data) ==
    LET stats == DictGetOr(data, "stats", <<>>)
        hp == DictGetOr(stats, "hp", 20)
        focus == DictGetOr(stats, "focus", 2)
    IN  [id |-> enemy_id,
         hp |-> hp, max_hp |-> hp,
         attack |-> DictGetOr(stats, "attack", 5),
         defense |-> DictGetOr(stats, "defense", 1),
         speed |-> DictGetOr(stats, "speed", 3),
         focus |-> focus, max_focus |-> focus,
         abilities |-> DictGetOr(data, "abilities", <<>>),
         ability_cooldowns |-> <<>>,
         ai_pattern |-> DictGetOr(data, "ai_pattern", "basic"),
         status_effects |-> <<>>,
         loot |-> DictGetOr(data, "loot", <<>>),
         steam_pressure |-> IF enemy_id = "steam_golem" THEN 3 ELSE 0]

\* what load_enemies returns: {} for a missing or unreadable file, and a
\* file in which three entries are complete, one has no stats, one has only
\* part of them and one is an empty object
LoadedCatalogs ==
    { {},
      {t \in EnemyCatalog : t.id \in {"scrap_drone", "clockwork_sentinel", "rogue_automaton"}}
      \cup
      { [id |-> "furnace_brute", ai_pattern |-> "aggressive", loot |-> <<>>,
         abilities |-> <<"power_strike", "berserker_rage">>],
        [id |-> "aether_tactician", ai_pattern |-> "tactical",
         abilities |-> <<"power_strike", "defensive_stance">>,
         stats |-> [hp |-> 20, attack |-> 6]],
        [id |-> "steam_golem"] } }

\* the ids a room can name
EnemyIds ==
    {"scrap_drone", "clockwork_sentinel", "rogue_automaton", "furnace_brute",
     "aether_tactician", "steam_golem", "void_wraith"}

\* Game.start_combat: CombatEngine(self.player, enemy_id) inside try/except
start_combat(catalog, enemy_id) ==
    /\ last.op = "init"
    /\ ~game.combat_engine
    /\ LET found == {t \in catalog : t.id = enemy_id}
       IN  IF found = {}
           THEN /\ last' = [op |-> "start_combat", outcome |-> "ValueError",
                            arg |-> [enemy_id |-> enemy_id, found |-> found],
                            usable |-> TRUE]
                /\ UNCHANGED <<player, enemy, turn_queue, current_turn, combat_log,
                               combat_active, game>>
           ELSE \E data \in found :
                /\ enemy' = Enemy_init(enemy_id, data)
                /\ turn_queue' \in setup_turn_order(player, enemy')
                /\ current_turn' = 0
                /\ combat_log' = <<"turn_order", "combat_begins">>
                /\ combat_active' = TRUE
                /\ game' = [combat_engine |-> TRUE,
                            pending |-> IF turn_queue'[1] = "player" THEN 0 ELSE 1,
                            ended_as |-> "none"]
                /\ last' = [op |-> "start_combat", outcome |-> "ok",
                            arg |-> [enemy_id |-> enemy_id, found |-> found],
                            usable |-> TRUE]
                /\ UNCHANGED player
    /\ UNCHANGED calls

\* a Game in a room, before the Fight button is pressed
StartInit ==
    /\ player \in PlayerStarts
    /\ enemy = NoEnemy
    /\ turn_queue = <<>>
    /\ current_turn = 0
    /\ combat_log = <<>>
    /\ combat_active = FALSE
    /\ last = [op |-> "init", outcome |-> "ok", arg |-> "none", usable |-> TRUE]
    /\ calls = 0
    /\ game = NoGame

StartNext ==
    \/ \E catalog \in LoadedCatalogs, enemy_id \in EnemyIds : start_combat(catalog, enemy_id)
    \/ combat_attack
    \/ \E ability_name \in AbilityNames : combat_ability(ability_name)
    \/ \E item_name \in ItemNames : combat_item(item_name)
    \/ combat_flee
    \/ Game_enemy_turn

StartSpec == StartInit /\ [][StartNext]_vars

----------------------------------------------------------------------------
(* The Player with its equipment, outside combat (src/models/player.py,     *)
(* called from the inventory window).                                       *)

\* Python's None in an equipment slot
None == [name |-> "None", type |-> "None", stats |-> <<>>]

SteamBlade ==
    [name |-> "Steam Blade", type |-> "weapon", stackable |-> FALSE,
     stats |-> [attack_bonus |-> 5]]

RustyPipe ==
    [name |-> "Rusty Pipe", type |-> "weapon", stackable |-> FALSE,
     stats |-> [attack_bonus |-> 2]]

BronzeTalisman ==
    [name |-> "Bronze Talisman", type |-> "accessory", stackable |-> FALSE,
     stats |-> [defense_bonus |-> 3, focus_bonus |-> 1, speed_bonus |-> 2]]

IronRing ==
    [name |-> "Iron Ring", type |-> "accessory", stackable |-> FALSE,
     stats |-> [defense_bonus |-> 1]]

\* Player.__init__ with every attribute the equipment and save code reads
FullPlayer ==
    NewPlayer @@
    [name |-> "Aether Warden",
     base_attack |-> 10, base_defense |-> 5, base_speed |-> 6,
     equipped_weapon |-> None, equipped_accessory |-> None,
     current_room |-> "entrance", visited_rooms |-> {}, aether_crystals |-> 0]

\* Player.unequip_weapon: [p, old]
Player_unequip_weapon(p) ==
    IF p.equipped_weapon = None
    THEN [p |-> p, old |-> None]
    ELSE [p |-> [p EXCEPT !.equipped_weapon = None, !.attack = p.base_attack],
          old |-> p.equipped_weapon]

\* Player.equip_weapon: [p, ok]
Player_equip_weapon(p, weapon) ==
    IF weapon.type # "weapon"
    THEN [p |-> p, ok |-> FALSE]
    ELSE LET u  == Player_unequip_weapon(p)
             p1 == IF p.equipped_weapon # None /\ u.old # None
                   THEN Player_add_item(u.p, u.old) ELSE u.p
         IN  [p |-> [p1 EXCEPT !.equipped_weapon = weapon,
                               !.attack = p1.base_attack
                                          + DictGetOr(weapon.stats, "attack_bonus", 0)],
              ok |-> TRUE]

\* Player.unequip_accessory leaving the speed as the accessory set it
Player_unequip_accessory_keeps_speed(p) ==
    IF p.equipped_accessory = None
    THEN [p |-> p, old |-> None]
    ELSE [p |-> [p EXCEPT !.equipped_accessory = None,
                          !.defense = p.base_defense,
                          !.max_focus = 5],
          old |-> p.equipped_accessory]

\* Player.unequip_accessory: [p, old]
Player_unequip_accessory(p) ==
    IF p.equipped_accessory = None
    THEN [p |-> p, old |-> None]
    ELSE [p |-> [p EXCEPT !.equipped_accessory = None,
                          !.defense = p.base_defense,
                          !.max_focus = 5,
                          !.speed = p.base_speed],
          old |-> p.equipped_accessory]

\* Player.equip_accessory: [p, ok]
Player_equip_accessory(p, accessory) ==
    IF accessory.type # "accessory"
    THEN [p |-> p, ok |-> FALSE]
    ELSE LET u  == Player_unequip_accessory(p)
             p1 == IF p.equipped_accessory # None /\ u.old # None
                   THEN Player_add_item(u.p, u.old) ELSE u.p
             stats == accessory.stats
             p2 == [p1 EXCEPT !.equipped_accessory = accessory]
             p3 == IF "defense_bonus" \in DOMAIN stats
                   THEN [p2 EXCEPT !.defense = p2.base_defense + stats.defense_bonus]
                   ELSE p2
             p4 == IF "focus_bonus" \in DOMAIN stats
                   THEN [p3 EXCEPT
                            !.max_focus = p3.max_focus + stats.focus_bonus,
                            !.focus = Min(p3.focus + stats.focus_bonus,
                                          p3.max_focus + stats.focus_bonus)]
                   ELSE p3
             p5 == IF "speed_bonus" \in DOMAIN stats
                   THEN [p4 EXCEPT !.speed = p4.base_speed + stats.speed_bonus]
                   ELSE p4
         IN  [p |-> p5, ok |-> TRUE]

RECURSIVE SetToList(_)
\* list(a_set): the members in some order
SetToList(S) ==
    IF S = {} THEN <<>>
    ELSE LET x == CHOOSE y \in S : TRUE IN <<x>> \o SetToList(S \ {x})

\* set(a_list)
ListToSet(l) == {l[i] : i \in 1..Len(l)}

\* Player.to_dict: the saved attributes (attack, defense and speed are not saved)
to_dict(p) ==
    [name |-> p.name, hp |-> p.hp, max_hp |-> p.max_hp,
     focus |-> p.focus, max_focus |-> p.max_focus,
     base_attack |-> p.base_attack, base_defense |-> p.base_defense,
     base_speed |-> p.base_speed,
     inventory |-> p.inventory,
     equipped_weapon |-> p.equipped_weapon,
     equipped_accessory |-> p.equipped_accessory,
     current_room |-> p.current_room,
     visited_rooms |-> SetToList(p.visited_rooms),
     aether_crystals |-> p.aether_crystals,
     enemies_defeated |-> p.enemies_defeated,
     total_damage_dealt |-> p.total_damage_dealt,
     total_damage_taken |-> p.total_damage_taken,
     status_effects |-> p.status_effects]

\* Player.from_dict: a new Player, the saved attributes, then the equipment
\* equipped again through equip_weapon and equip_accessory
from_dict(data) ==
    LET base_attack  == DictGetOr(data, "base_attack", 10)
        base_defense == DictGetOr(data, "base_defense", 5)
        base_speed   == DictGetOr(data, "base_speed", 6)
        restored ==
            [name |-> DictGetOr(data, "name", "Aether Warden"),
             hp |-> DictGetOr(data, "hp", 100),
             max_hp |-> DictGetOr(data, "max_hp", 100),
             focus |-> DictGetOr(data, "focus", 5),
             max_focus |-> DictGetOr(data, "max_focus", 5),
             base_attack |-> base_attack,
             base_defense |-> base_defense,
             base_speed |-> base_speed,
             inventory |-> DictGetOr(data, "inventory", <<>>),
             equipped_weapon |-> DictGetOr(data, "equipped_weapon", None),
             equipped_accessory |-> DictGetOr(data, "equipped_accessory", None),
             current_room |-> DictGetOr(data, "current_room", "entrance"),
             visited_rooms |-> ListToSet(DictGetOr(data, "visited_rooms", <<>>)),
             aether_crystals |-> DictGetOr(data, "aether_crystals", 0),
             enemies_defeated |-> DictGetOr(data, "enemies_defeated", 0),
             total_damage_dealt |-> DictGetOr(data, "total_damage_dealt", 0),
             total_damage_taken |-> DictGetOr(data, "total_damage_taken", 0),
             status_effects |-> DictGetOr(data, "status_effects", <<>>),
             attack |-> base_attack, defense |-> base_defense, speed |-> base_speed]
        armed == IF restored.equipped_weapon # None
                 THEN Player_equip_weapon(restored, restored.equipped_weapon).p
                 ELSE restored
    IN  IF armed.equipped_accessory # None
        THEN Player_equip_accessory(armed, armed.equipped_accessory).p
        ELSE armed

\* the items handed to equip_weapon and equip_accessory
EquipItems == {SteamBlade, RustyPipe, BronzeTalisman, IronRing, HealingTonic}

FocusAmounts == {1, 3}

\* the players the equipment calls start from: new, as in the round-trip test
\* (a tonic carried, poisoned), after a fight, and with equipment already on
EquipPlayers ==
    LET carrying == [FullPlayer EXCEPT !.inventory = <<HealingTonic>>,
                                       !.status_effects = <<<<"poisoned", 2>>>>]
        spent    == [FullPlayer EXCEPT !.hp = 60, !.focus = 2,
                                       !.visited_rooms = {"entrance", "hallway"}]
    IN  {FullPlayer, carrying, spent,
         Player_equip_weapon(carrying, SteamBlade).p,
         Player_equip_accessory(spent, BronzeTalisman).p}

CalledEquip(op, arg, value) ==
    /\ calls < MaxEquipCalls
    /\ CalledOutsideCombat(op, arg, value)

call_Player_equip_weapon(weapon) ==
    LET r == Player_equip_weapon(player, weapon)
    IN  /\ player' = r.p
        /\ CalledEquip("Player.equip_weapon", weapon, r.ok)

call_Player_unequip_weapon ==
    LET r == Player_unequip_weapon(player)
    IN  /\ player' = r.p
        /\ CalledEquip("Player.unequip_weapon", "none", r.old)

call_Player_equip_accessory(accessory) ==
    LET r == Player_equip_accessory(player, accessory)
    IN  /\ player' = r.p
        /\ CalledEquip("Player.equip_accessory", accessory, r.ok)

call_Player_unequip_accessory ==
    LET r == Player_unequip_accessory(player)
    IN  /\ player' = r.p
        /\ CalledEquip("Player.unequip_accessory", "none", r.old)

call_Player_spend_focus(amount) ==
    LET r == Player_spend_focus(player, amount)
    IN  /\ player' = r.p
        /\ CalledEquip("Player.spend_focus", amount, r.ok)

call_Player_restore_focus(amount) ==
    LET r == Player_restore_focus(player, amount)
    IN  /\ player' = r.p
        /\ CalledEquip("Player.restore_focus", amount, r.restored)

\* save_game then _perform_load: the player is written with to_dict and
\* rebuilt from the loaded dictionary with from_dict
save_and_load ==
    LET data == to_dict(player)
    IN  /\ player' = from_dict(data)
        /\ CalledEquip("Player.from_dict", data, "none")

EquipInit ==
    /\ player \in EquipPlayers
    /\ enemy = NoEnemy
    /\ turn_queue = <<>>
    /\ current_turn = 0
    /\ combat_log = <<>>
    /\ combat_active = FALSE
    /\ last = [op |-> "init", outcome |-> "ok", arg |-> "none", usable |-> TRUE]
    /\ calls = 0
    /\ game = NoGame

EquipNext ==
    \/ \E weapon \in EquipItems : call_Player_equip_weapon(weapon)
    \/ call_Player_unequip_weapon
    \/ \E accessory \in EquipItems : call_Player_equip_accessory(accessory)
    \/ call_Player_unequip_accessory
    \/ \E amount \in FocusAmounts : call_Player_spend_focus(amount)
    \/ \E amount \in FocusAmounts : call_Player_restore_focus(amount)
    \/ save_and_load

EquipSpec == EquipInit /\ [][EquipNext]_vars

----------------------------------------------------------------------------
(* Enemy.choose_action of a tactical adversary, called on its own over the  *)
(* protagonist and adversary values its rules distinguish.                  *)

\* protagonists on both sides of hp 30 and of focus 3
TacticalPlayers ==
    {[NewPlayer EXCEPT !.hp = hp, !.focus = focus, !.total_damage_taken = 100 - hp] :
        hp \in {29, 30}, focus \in {2, 3}}

\* the cooldowns a tactician can carry when choose_action is called
TacticalCooldowns ==
    {<<>>, <<<<"power_strike", 2>>>>, <<<<"defensive_stance", 3>>>>,
     <<<<"repair_self", 3>>>>, <<<<"repair_self", 1>>, <<"berserker_rage", 5>>>>}

\* tacticians on both sides of 40% of max_hp, with every focus of 0..4
TacticalEnemies ==
    {[create_enemy(data) EXCEPT !.hp = hp, !.focus = focus,
                                !.ability_cooldowns = cooldowns] :
        data \in {d \in EnemyCatalog : d.ai_pattern = "tactical"},
        hp \in {7, 8}, focus \in 0..4, cooldowns \in TacticalCooldowns}

TacticalInit ==
    /\ player \in TacticalPlayers
    /\ enemy \in TacticalEnemies
    /\ turn_queue = <<>>
    /\ current_turn = 0
    /\ combat_log = <<>>
    /\ combat_active = FALSE
    /\ last = [op |-> "init", outcome |-> "ok", arg |-> "none", usable |-> TRUE]
    /\ calls = 0
    /\ game = NoGame

TacticalNext ==
    \/ call_Enemy_choose_action
    \/ \E ability_name \in UseAbilityNames : call_Enemy_use_ability(ability_name)

TacticalSpec == TacticalInit /\ [][TacticalNext]_vars

----------------------------------------------------------------------------
(* An encounter in which the protagonist only ever makes basic attacks and  *)
(* every adversary turn is eventually run.                                  *)

duel_player_attack ==
    /\ current_turn < MaxDuelTurns
    /\ resolve_player_attack
    /\ UNCHANGED <<calls, game>>

duel_enemy_turn ==
    /\ current_turn < MaxDuelTurns
    /\ resolve_enemy_turn
    /\ UNCHANGED <<calls, game>>

DuelNext ==
    \/ duel_player_attack
    \/ duel_enemy_turn

\* the attack button is pressed on each of the protagonist's turns and the
\* scheduled enemy-turn callback runs on each of the adversary's
DuelSpec ==
    /\ Init
    /\ [][DuelNext]_vars
    /\ WF_vars(duel_player_attack)
    /\ WF_vars(duel_enemy_turn)

----------------------------------------------------------------------------
(* Vocabulary of the properties, read off the state alone *)

\* the side turn_queue and current_turn give the move to
TurnOwner ==
    IF combat_active THEN turn_queue[(current_turn % 2) + 1] ELSE "none"

PlayerOps == {"player_attack", "player_use_ability", "player_use_item"}

\* everything a call can change
EngineState == <<player, enemy, turn_queue, current_turn, combat_log, combat_active>>

\* the focus costs of the player's abilities (combat.py lines 99-102)
PlayerAbilityCost ==
    [power_strike |-> 2, defensive_stance |-> 1, aether_blast |-> 3, heal |-> 2]

\* the step is a call that went through to _end_turn
Completed == last'.outcome \in {"ok", "cannot_use"}

----------------------------------------------------------------------------
(* C1 *)

C1_Step ==
    ( \/ last'.op \in PlayerOps /\ TurnOwner # "player"
      \/ last'.op = "enemy_turn" /\ TurnOwner # "enemy" )
    => /\ last'.outcome \in {"not_your_turn", "not_enemy_turn"}
       /\ UNCHANGED EngineState

\* C1: a call of player_attack, player_use_ability or player_use_item while
\* it is not the player's turn, or of enemy_turn while it is not the enemy's
\* turn, is rejected and leaves the player, the enemy, the turn queue, the
\* turn counter, the log and the active flag as they were.
C1_WrongTurnRejected == [][C1_Step]_vars

\* a player call has been rejected in the middle of an encounter
C1_Witness ==
    /\ last.op \in PlayerOps
    /\ last.outcome = "not_your_turn"
    /\ combat_active
    /\ current_turn > 0

----------------------------------------------------------------------------
(* C2 *)

\* C2: in every reachable state both combatants have 0 <= hp <= max_hp and
\* 0 <= focus <= max_focus.
C2_PoolsInRange ==
    /\ 0 <= player.hp /\ player.hp <= player.max_hp
    /\ 0 <= player.focus /\ player.focus <= player.max_focus
    /\ 0 <= enemy.hp /\ enemy.hp <= enemy.max_hp
    /\ 0 <= enemy.focus /\ enemy.focus <= enemy.max_focus

\* the player's heal ability has filled hp up to max_hp
C2_Witness ==
    /\ last.op = "player_use_ability"
    /\ last.arg = "heal"
    /\ last.outcome = "ok"
    /\ player.hp = player.max_hp
    /\ enemy.focus < enemy.max_focus

----------------------------------------------------------------------------
(* C3 *)

C3_Step ==
    Completed =>
        IF player'.hp = 0 \/ enemy'.hp = 0
        THEN /\ ~combat_active'
             /\ TurnOwner' = "none"
             /\ current_turn' = current_turn
        ELSE /\ combat_active'
             /\ current_turn' = current_turn + 1

\* C3: a call that is not rejected ends with one termination check made on
\* the hp values the status tick has left: with either hp at 0 the encounter
\* is concluded and the turn counter keeps its value, otherwise the counter
\* grows by exactly 1 and the encounter stays active.
C3_TerminationCheck == [][C3_Step]_vars

\* the status tick of a player action has killed the player
C3_Witness ==
    /\ last.op \in PlayerOps
    /\ last.outcome = "ok"
    /\ ~combat_active
    /\ player.hp = 0
    /\ enemy.hp > 0
    /\ current_turn = 0

----------------------------------------------------------------------------
(* C4 *)

\* C4: a concluded encounter has a combatant at 0 hp and get_winner is
\* "enemy" when only the player is at 0, "player" when only the enemy is at
\* 0 and "draw" when both are; while the encounter is active with both
\* alive get_winner is None.
C4_Outcome ==
    /\ ~combat_active =>
          /\ player.hp = 0 \/ enemy.hp = 0
          /\ get_winner = IF player.hp = 0 /\ enemy.hp = 0 THEN "draw"
                          ELSE IF player.hp = 0 THEN "enemy"
                          ELSE "player"
    /\ (combat_active /\ player.hp > 0 /\ enemy.hp > 0) => get_winner = "None"

\* an encounter concluded with both combatants at 0 hp
C4_Witness ==
    /\ ~combat_active
    /\ player.hp = 0
    /\ enemy.hp = 0
    /\ get_winner = "draw"

----------------------------------------------------------------------------
(* C5 *)

\* C5: whatever enemy_turn has got from choose_action is a basic attack or an
\* ability for which can_use_ability held on the enemy choose_action left,
\* and the use_ability call that followed did not fail.
C5_ChoiceUsable ==
    (last.op = "enemy_turn" /\ last.outcome # "not_enemy_turn")
    => (last.usable /\ last.outcome = "ok")

----------------------------------------------------------------------------
(* C6 *)

\* a cooldown entry is positive and blocks its ability
C6_Blocked ==
    \A k \in DictKeys(enemy.ability_cooldowns) :
        /\ DictGet(enemy.ability_cooldowns, k) > 0
        /\ ~can_use_ability(enemy, k)

C6_Step ==
    (last'.op = "enemy_turn" /\ last'.outcome # "not_enemy_turn") =>
        \A k \in DictKeys(enemy.ability_cooldowns) :
            LET c == DictGet(enemy.ability_cooldowns, k)
            IN  IF c > 1
                THEN /\ DictHas(enemy'.ability_cooldowns, k)
                     /\ DictGet(enemy'.ability_cooldowns, k) = c - 1
                ELSE \/ ~DictHas(enemy'.ability_cooldowns, k)
                     \/ /\ last'.outcome = "ok"
                        /\ last'.arg = k
                        /\ DictGet(enemy'.ability_cooldowns, k) = get_ability_cooldown(k)

\* C6: a cooldown entry is positive and makes its ability unusable, and every
\* enemy turn that is not rejected lowers every entry by exactly 1, an entry
\* at 1 being removed on that turn (so that the ability can be used again on
\* it), for every kind of enemy.
C6_CooldownCountsDown == []C6_Blocked /\ [][C6_Step]_vars

----------------------------------------------------------------------------
(* C7 *)

\* the ability names of the enemy's tables, and one outside them
EnemyAbilityNames ==
    {"power_strike", "defensive_stance", "quick_strike", "energy_discharge",
     "repair_self", "berserker_rage", "steam_blast"}

C7_Enemy ==
    \A a \in EnemyAbilityNames :
        get_ability_focus_cost(a) > enemy.focus
        => use_ability(enemy, a) = [e |-> enemy, damage |-> 0, ok |-> FALSE]

C7_Step ==
    ( /\ last'.op = "player_use_ability"
      /\ TurnOwner = "player"
      /\ last'.arg \in DOMAIN PlayerAbilityCost
      /\ PlayerAbilityCost[last'.arg] > player.focus )
    => /\ last'.outcome = "not_enough_focus"
       /\ UNCHANGED EngineState
       /\ TurnOwner' = "player"

\* C7: player_use_ability on the player's turn with a known ability that
\* costs more than the player's focus returns the focus failure, changes
\* nothing and leaves the turn with the player; Enemy.use_ability with an
\* ability that costs more than the enemy's focus fails, returns damage 0
\* and leaves the enemy (focus, cooldowns and all) as it was.
C7_InsufficientFocus == []C7_Enemy /\ [][C7_Step]_vars

\* the player has been refused an ability for lack of focus
C7_Witness ==
    /\ last.op = "player_use_ability"
    /\ last.outcome = "not_enough_focus"
    /\ last.arg = "aether_blast"
    /\ player.focus > 0
    /\ TurnOwner = "player"

----------------------------------------------------------------------------
(* C8 *)

HeldConsumable(item_name) ==
    \E i \in 1..Len(player.inventory) :
        /\ player.inventory[i].name = item_name
        /\ player.inventory[i].type = "consumable"

C8_Step ==
    /\ ( /\ last'.op = "player_use_ability"
         /\ TurnOwner = "player"
         /\ last'.arg \notin DOMAIN PlayerAbilityCost )
       => /\ last'.outcome = "unknown_ability"
          /\ UNCHANGED EngineState
    /\ ( /\ last'.op = "player_use_item"
         /\ TurnOwner = "player"
         /\ ~HeldConsumable(last'.arg) )
       => /\ last'.outcome = "not_found"
          /\ UNCHANGED EngineState

\* C8: on the player's turn, player_use_ability with a name outside the
\* abilities table and player_use_item with a name no held consumable has
\* return a failure, change nothing and leave the turn with the player.
C8_UnknownNameRejected == [][C8_Step]_vars

\* the name of a held key item has been refused by player_use_item
C8_Witness ==
    /\ last.op = "player_use_item"
    /\ last.outcome = "not_found"
    /\ last.arg = "Aether Crystal"
    /\ \E i \in 1..Len(player.inventory) : player.inventory[i].name = "Aether Crystal"
    /\ TurnOwner = "player"

----------------------------------------------------------------------------
(* C9 *)

\* the outcomes of a call, or of the ability use inside it, that failed
Rejections ==
    {"not_your_turn", "not_enemy_turn", "unknown_ability", "not_enough_focus",
     "not_found", "cannot_use"}

\* C9: no rejected player call and no failed enemy ability use appends a
\* line to the combat log.
C9_RejectionsNotLogged ==
    [][last'.outcome \in Rejections => combat_log' = combat_log]_vars

----------------------------------------------------------------------------
(* C10 *)

\* a player attack or ability takes the enemy from positive hp to 0
C10_Kill ==
    /\ last'.op \in {"player_attack", "player_use_ability"}
    /\ last'.outcome = "ok"
    /\ enemy.hp > 0
    /\ enemy'.hp = 0

\* with the enemy at 0 hp no enemy turn is resolved
C10_NoEnemyAction ==
    (enemy.hp = 0 /\ last'.op = "enemy_turn")
    => (last'.outcome = "not_enemy_turn" /\ UNCHANGED EngineState)

\* C10 as claimed: the player action that takes the enemy to 0 hp concludes
\* the encounter with get_winner = "player", and no enemy action is resolved
\* afterwards.
C10_KillIsPlayerWin ==
    [][ /\ C10_Kill => (~combat_active' /\ get_winner' = "player")
        /\ C10_NoEnemyAction ]_vars

\* C10 amended: the player action that takes the enemy to 0 hp concludes the
\* encounter on that action; get_winner is "player" when the player's hp is
\* positive at that action's termination check and "draw" when it is 0; no
\* enemy action is resolved afterwards.
C10_KillConcludes ==
    [][ /\ C10_Kill => /\ ~combat_active'
                       /\ get_winner' = IF player'.hp > 0 THEN "player" ELSE "draw"
        /\ C10_NoEnemyAction ]_vars

\* a player ability has killed the enemy and the player has won
C10_Witness ==
    /\ last.op = "player_use_ability"
    /\ last.outcome = "ok"
    /\ enemy.hp = 0
    /\ player.hp > 0
    /\ ~combat_active
    /\ get_winner = "player"

----------------------------------------------------------------------------
(* C11 *)

PlayerTags == {"player_attack", "player_ability", "player_item"}

EnemyTags == {"enemy_attack", "enemy_ability", "enemy_cannot_use"}

\* the lines of the log that record an action, in order
ActionLines == SelectSeq(combat_log, LAMBDA tag : tag \in PlayerTags \cup EnemyTags)

\* no two consecutive action lines are of the same side
C11_Alternates ==
    \A i \in 1..(Len(ActionLines) - 1) :
        (ActionLines[i] \in PlayerTags) # (ActionLines[i + 1] \in PlayerTags)

C11_Step ==
    /\ turn_queue' = turn_queue
    /\ current_turn' >= current_turn
    /\ Completed =>
          /\ combat_active
          /\ turn_queue[(current_turn % 2) + 1] =
                 IF last'.op = "enemy_turn" THEN "enemy" ELSE "player"

\* C11: no call changes the turn queue, the turn counter never decreases, a
\* call is resolved only for the side turn_queue[current_turn mod 2] of an
\* active encounter, and the action lines of the log alternate between the
\* two sides.
C11_TurnsAlternate == []C11_Alternates /\ [][C11_Step]_vars

\* four actions resolved in an encounter the enemy opened
C11_Witness ==
    /\ Len(ActionLines) >= 4
    /\ turn_queue = <<"enemy", "player">>
    /\ ActionLines[1] \in EnemyTags
    /\ ActionLines[4] \in PlayerTags
    /\ current_turn >= 4

----------------------------------------------------------------------------
(* C12 *)

\* C12: the turn queue is a permutation of player and enemy; with unequal
\* speeds the faster side is first; with equal speeds _setup_turn_order can
\* produce either permutation.
C12_TurnOrder ==
    /\ turn_queue \in {<<"player", "enemy">>, <<"enemy", "player">>}
    /\ player.speed > enemy.speed => turn_queue = <<"player", "enemy">>
    /\ player.speed < enemy.speed => turn_queue = <<"enemy", "player">>
    /\ player.speed = enemy.speed =>
          setup_turn_order(player, enemy) = {<<"player", "enemy">>, <<"enemy", "player">>}

\* equal speeds and the enemy has been put first
C12_Witness ==
    /\ player.speed = enemy.speed
    /\ turn_queue = <<"enemy", "player">>
    /\ last.op = "enemy_turn"
    /\ last.outcome = "ok"

----------------------------------------------------------------------------
\* the adversaries whose take_damage is Enemy.take_damage
BaseEnemy == enemy.id \notin {"clockwork_sentinel", "rogue_automaton"}

C13_Step ==
    /\ last'.op = "Player.take_damage" =>
          /\ last'.outcome = Max(1, last'.arg - player.defense)
          /\ player'.hp = Max(0, player.hp - last'.outcome)
          /\ player'.hp >= 0
    /\ (last'.op = "Enemy.take_damage" /\ BaseEnemy) =>
          /\ last'.outcome = Max(1, last'.arg - enemy.defense)
          /\ enemy'.hp = Max(0, enemy.hp - last'.outcome)
          /\ enemy'.hp >= 0

\* C13: take_damage on the protagonist and on a base adversary returns
\* max(1, damage - defense) and sets hp to max(0, old hp - that amount),
\* which is never below 0.
C13_TakeDamage == [][C13_Step]_vars

\* both clamps have acted: the protagonist at hp 1 took the minimum of 1,
\* then a base adversary with 12 hp took 19
C13_Witness ==
    /\ last.op = "Enemy.take_damage" /\ last.arg = 20 /\ last.outcome = 19
    /\ enemy.id = "scrap_drone" /\ enemy.hp = 0
    /\ player.hp = 0 /\ player.total_damage_taken = 100

C14_Step ==
    /\ last'.op = "Player.heal" =>
          /\ player'.hp = Min(player.max_hp, player.hp + last'.arg)
          /\ player'.hp <= player'.max_hp
          /\ last'.outcome = player'.hp - player.hp
    /\ last'.op = "Enemy.heal" =>
          /\ enemy'.hp = Min(enemy.max_hp, enemy.hp + last'.arg)
          /\ enemy'.hp <= enemy'.max_hp
          /\ last'.outcome = enemy'.hp - enemy.hp

\* C14: heal on either combatant sets hp to min(max_hp, old hp + amount),
\* never above max_hp, and returns new hp - old hp.
C14_Heal == [][C14_Step]_vars

\* an adversary brought from 12 to 3 hp is healed by 15 and gains 9
C14_Witness ==
    /\ last.op = "Enemy.heal" /\ last.arg = 15 /\ last.outcome = 9
    /\ enemy.hp = enemy.max_hp /\ enemy.max_hp = 12

\* the protagonist once a hit of dmg has landed, before the end of the turn
PlayerHit(dmg) ==
    [player EXCEPT !.hp = Max(0, player.hp - dmg),
                   !.total_damage_taken = player.total_damage_taken + dmg]

C15_Step ==
    /\ (last'.op = "player_attack" /\ TurnOwner = "player") =>
          /\ last'.outcome = "ok"
          /\ player'.focus = player.focus
          /\ BaseEnemy =>
                /\ enemy'.hp = Max(0, enemy.hp - Max(1, player.attack - enemy.defense))
                /\ player'.total_damage_dealt =
                       player.total_damage_dealt + Max(1, player.attack - enemy.defense)
    /\ (last'.op = "enemy_turn" /\ last'.arg = "none" /\ TurnOwner = "enemy") =>
          /\ last'.outcome = "ok"
          /\ enemy'.focus = enemy.focus
          /\ player' = Player_update_status_effects(
                           PlayerHit(Max(1, enemy.attack - player.defense)))
          /\ player'.hp >= 0

\* C15: a basic attack on the attacker's own turn succeeds, costs no focus
\* and deals max(1, attacker.attack - defender.defense) to a defender
\* without armor or dodge, whose hp drops by that amount but not below 0.
C15_BasicAttack == [][C15_Step]_vars

\* an adversary with attack 20 has hit a protagonist with defense 5 and
\* hp 100, who is left with hp 85
C15_Witness ==
    /\ last.op = "enemy_turn" /\ last.arg = "none" /\ last.outcome = "ok"
    /\ enemy.attack = 20 /\ player.defense = 5
    /\ player.hp = 85 /\ player.total_damage_taken = 15

\* the focus costs and cooldown lengths of the adversary's abilities; a name
\* in neither table of the code costs 1 and cools down for 2 turns
EnemyAbilityCost ==
    [power_strike |-> 2, defensive_stance |-> 1, quick_strike |-> 1,
     energy_discharge |-> 3, repair_self |-> 2, berserker_rage |-> 3,
     steam_blast |-> 1]

EnemyAbilityCooldown ==
    [power_strike |-> 2, defensive_stance |-> 3, quick_strike |-> 1,
     energy_discharge |-> 4, repair_self |-> 3, berserker_rage |-> 5,
     steam_blast |-> 2]

C16_Step ==
    /\ (last'.op = "player_use_ability" /\ last'.outcome = "ok") =>
          /\ player.focus >= PlayerAbilityCost[last'.arg]
          /\ player'.focus = player.focus - PlayerAbilityCost[last'.arg]
    /\ (last'.op = "enemy_turn" /\ last'.outcome = "ok" /\ last'.arg # "none") =>
          /\ enemy.focus >= EnemyAbilityCost[last'.arg]
          /\ enemy'.focus = enemy.focus - EnemyAbilityCost[last'.arg]
          /\ DictHas(enemy'.ability_cooldowns, last'.arg)
          /\ DictGet(enemy'.ability_cooldowns, last'.arg) = EnemyAbilityCooldown[last'.arg]
          /\ ~can_use_ability(enemy', last'.arg)

\* C16: a successful ability use debits the user's focus by exactly the
\* ability's cost; the adversary's use also sets the ability's cooldown to
\* its configured length, so can_use_ability is false right after.
C16_AbilityUse == [][C16_Step]_vars

\* the adversary has used power_strike (cost 2, cooldown 2) after the
\* protagonist used aether_blast (cost 3)
C16_Witness ==
    /\ last.op = "enemy_turn" /\ last.outcome = "ok" /\ last.arg = "power_strike"
    /\ enemy.focus = enemy.max_focus - 2
    /\ DictGet(enemy.ability_cooldowns, "power_strike") = 2
    /\ player.focus = 2 /\ player.max_focus = 5
    /\ Len(combat_log) >= 4 /\ combat_log[3] = "player_ability"

\* the damage multipliers, times ten
PlayerMultiplier == [power_strike |-> 15, aether_blast |-> 13]

EnemyMultiplier ==
    [power_strike |-> 15, quick_strike |-> 8, energy_discharge |-> 12,
     berserker_rage |-> 20]

\* max(1, floor(attack x multiplier) - defense)
AbilityDamage(attack, times_ten, defense) ==
    Max(1, ((attack * times_ten) \div 10) - defense)

C17_Step ==
    /\ (/\ last'.op = "player_use_ability" /\ last'.outcome = "ok"
         /\ last'.arg \in DOMAIN PlayerMultiplier /\ BaseEnemy) =>
          enemy'.hp = Max(0, enemy.hp - AbilityDamage(player.attack,
                                            PlayerMultiplier[last'.arg], enemy.defense))
    /\ (/\ last'.op = "enemy_turn" /\ last'.outcome = "ok"
         /\ last'.arg \in DOMAIN EnemyMultiplier) =>
          player' = Player_update_status_effects(
                        PlayerHit(AbilityDamage(enemy.attack,
                                      EnemyMultiplier[last'.arg], player.defense)))

\* C17: a damaging ability of either side deals
\* max(1, floor(attack x multiplier) - defender.defense) to a defender
\* without armor or dodge, for every positive attack, attack = 1 included.
C17_AbilityDamage == [][C17_Step]_vars

\* every entry of the dictionary has turns remaining
AllPositive(d) == \A i \in 1..Len(d) : d[i][2] > 0

\* after is before with every entry one lower and the entries at 1 gone
TickedExactly(before, after) ==
    /\ DictKeys(after) \subseteq DictKeys(before)
    /\ \A i \in 1..Len(before) :
          IF before[i][2] > 1
          THEN /\ DictHas(after, before[i][1])
               /\ DictGet(after, before[i][1]) = before[i][2] - 1
          ELSE ~DictHas(after, before[i][1])

\* choose_action runs the cooldown loop and _update_status_effects unless
\* the golem's pressure branch returns first
ChooseActionTicks == ~(enemy.id = "steam_golem" /\ enemy.steam_pressure + 1 >= 3)

C18_Positive ==
    /\ AllPositive(player.status_effects)
    /\ AllPositive(enemy.status_effects)
    /\ AllPositive(enemy.ability_cooldowns)

C18_Step ==
    /\ last'.op = "Player.update_status_effects" =>
          TickedExactly(player.status_effects, player'.status_effects)
    /\ last'.op = "Enemy._update_status_effects" =>
          TickedExactly(enemy.status_effects, enemy'.status_effects)
    /\ (last'.op = "Enemy.choose_action" /\ ChooseActionTicks) =>
          /\ TickedExactly(enemy.ability_cooldowns, enemy'.ability_cooldowns)
          /\ TickedExactly(enemy.status_effects, enemy'.status_effects)

\* C18: no status effect of either combatant and no adversary cooldown has
\* a remaining-turns value <= 0 in any reachable state; a tick lowers every
\* entry by exactly 1 and removes in the same tick the entries that reach 0.
C18_NoExpiredEntries == []C18_Positive /\ [][C18_Step]_vars

\* choose_action has ticked the brute: berserker (1 turn left) and the
\* power_strike cooldown (1) are gone, the berserker_rage cooldown is at 4
C18_Witness ==
    /\ last.op = "Enemy.choose_action"
    /\ enemy.id = "furnace_brute"
    /\ enemy.status_effects = <<>>
    /\ enemy.ability_cooldowns = <<<<"berserker_rage", 4>>>>

\* the fixed amount of the poisoned effect
PoisonDamage == 3

C19_Step ==
    (/\ last'.op = "Player.update_status_effects"
     /\ DictHas(player.status_effects, "poisoned")
     /\ ~DictHas(player.status_effects, "regenerating")) =>
        player'.hp = Max(0, player.hp - PoisonDamage)

\* C19: on every status tick while poisoned is active, the expiring tick
\* included, the protagonist loses 3 hp, subject only to the clamp at 0.
C19_PoisonEveryTick == [][C19_Step]_vars

\* the position of the first held consumable with that name
FirstConsumable(item_name) ==
    CHOOSE i \in 1..Len(player.inventory) :
        /\ player.inventory[i].name = item_name
        /\ player.inventory[i].type = "consumable"
        /\ \A k \in 1..(i - 1) : ~(/\ player.inventory[k].name = item_name
                                    /\ player.inventory[k].type = "consumable")

\* the inventory without the entry at position i
WithoutEntry(inventory, i) ==
    SubSeq(inventory, 1, i - 1) \o SubSeq(inventory, i + 1, Len(inventory))

\* the protagonist once the consumable at position i has been applied and,
\* when it is not stackable, taken out of the inventory
AfterItem(i) ==
    LET item == player.inventory[i]
    IN  [player EXCEPT
            !.hp = IF "heal_amount" \in DOMAIN item.stats
                   THEN Min(player.max_hp, player.hp + item.stats.heal_amount)
                   ELSE player.hp,
            !.focus = IF "focus_restore" \in DOMAIN item.stats
                      THEN Min(player.max_focus, player.focus + item.stats.focus_restore)
                      ELSE player.focus,
            !.inventory = IF item.stackable THEN player.inventory
                          ELSE WithoutEntry(player.inventory, i)]

C20_Step ==
    (/\ last'.op = "player_use_item"
     /\ TurnOwner = "player"
     /\ HeldConsumable(last'.arg)) =>
        /\ last'.outcome = "ok"
        /\ TurnOwner' # "player"
        /\ player' = Player_update_status_effects(AfterItem(FirstConsumable(last'.arg)))
        /\ player'.inventory = AfterItem(FirstConsumable(last'.arg)).inventory
        /\ player'.hp <= player'.max_hp /\ player'.focus <= player'.max_focus

\* C20: player_use_item on the protagonist's turn with the name of a held
\* consumable applies heal_amount and focus_restore, clamped to the
\* maxima, ends the turn, takes exactly that one entry out of the inventory
\* when it is not stackable and leaves a stackable one in place; every
\* other inventory entry is unchanged.
C20_ItemUse == [][C20_Step]_vars

\* one of two Healing Tonics has gone, and the stackable Aether Vial, used
\* last, is still held and has restored 2 focus
C20_Witness ==
    /\ last.op = "player_use_item" /\ last.arg = "Aether Vial" /\ last.outcome = "ok"
    /\ player.inventory = <<AetherCrystal, AetherVial, HealingTonic>>
    /\ player.focus = 3

\* the side of a resolved action's log line
SideOf(tag) == IF tag \in PlayerTags THEN "player" ELSE "enemy"

C21_Step ==
    Len(ActionLines') > Len(ActionLines) =>
        /\ Len(ActionLines') = Len(ActionLines) + 1
        /\ Len(ActionLines) > 0 =>
              SideOf(ActionLines'[Len(ActionLines')]) # SideOf(ActionLines[Len(ActionLines)])

\* C21: under every interleaving of the protagonist's callbacks and the
\* scheduled enemy-turn callbacks, several of them pending at once
\* included, a callback resolves at most one action and never one of the
\* side that resolved the previous action.
C21_OneActionPerTurn == [][C21_Step]_vars

\* two enemy-turn callbacks were waiting; the first resolved the
\* adversary's action and the second, run next, was turned away
C21_Witness ==
    /\ last.op = "enemy_turn" /\ last.outcome = "not_enemy_turn"
    /\ game.combat_engine
    /\ Len(ActionLines) >= 1
    /\ SideOf(ActionLines[Len(ActionLines)]) = "enemy"

\* the encounter is open: the combat window and its Flee button exist
EncounterOpen == game.combat_engine

C22_CanFlee == EncounterOpen => ENABLED combat_flee

C22_Step ==
    /\ last'.op = "combat_flee" =>
          /\ game'.ended_as = "fled"
          /\ ~game'.combat_engine
          /\ UNCHANGED <<player, enemy, combat_log, current_turn, combat_active>>
    /\ game.ended_as = "fled" =>
          /\ game'.ended_as = "fled"
          /\ ~game'.combat_engine
          /\ UNCHANGED <<player, enemy, combat_log, current_turn, combat_active>>

\* C22: the protagonist can flee from every open encounter; fleeing ends
\* it as "fled" with no winner determined, and afterwards no callback, a
\* still pending enemy-turn callback included, changes either combatant.
C22_Flee == []C22_CanFlee /\ [][C22_Step]_vars

\* the protagonist fled on the adversary's turn and the enemy-turn callback
\* that was waiting has since run
C22_Witness ==
    /\ game.ended_as = "fled"
    /\ last.op = "enemy_turn" /\ last.outcome = "no_engine"
    /\ combat_active /\ turn_queue[(current_turn % 2) + 1] = "enemy"
    /\ Len(ActionLines) >= 1

\* the crystal count the primary condition asks for
CrystalsToWin == 3

C23_Step ==
    last'.op = "check_victory_conditions" =>
        /\ last'.outcome.has_won = (player.aether_crystals >= CrystalsToWin)
        /\ player.aether_crystals < CrystalsToWin =>
              /\ last'.outcome.has_won = FALSE
              /\ last'.outcome.victory_type = "none"

\* C23: check_victory_conditions returns has_won = true exactly when the
\* crystal count is at least 3, and (false, "none", ...) below 3 whatever
\* the other counters are.
C23_PrimaryCondition == [][C23_Step]_vars

\* two crystals and every other counter at its best: not won
C23_Witness ==
    /\ last.op = "check_victory_conditions"
    /\ player.aether_crystals = 2
    /\ last.outcome.has_won = FALSE /\ last.outcome.victory_type = "none"
    /\ Len(last.outcome.achievements) = 5

\* the bonus predicates a protagonist satisfies
BonusPredicates(p) ==
    {name \in {"rooms", "enemies", "no_damage", "little_damage"} :
        \/ name = "rooms" /\ {"entrance", "hallway", "laboratory", "armory"}
                                 \subseteq p.visited_rooms
        \/ name = "enemies" /\ p.enemies_defeated >= 2
        \/ name = "no_damage" /\ p.total_damage_taken = 0
        \/ name = "little_damage" /\ p.total_damage_taken < 20}

C24_Step ==
    (last'.op = "check_victory_conditions" /\ player.aether_crystals >= CrystalsToWin) =>
        /\ last'.outcome.victory_type =
               IF Cardinality(BonusPredicates(player)) >= 3 THEN "complete" ELSE "standard"
        /\ Len(last'.outcome.achievements) = Cardinality(BonusPredicates(player))

\* C24: when the primary condition holds, victory_type is "complete"
\* exactly when at least 3 of the four bonus predicates hold and "standard"
\* otherwise, and the achievement count is the number of bonus predicates
\* that hold.
C24_VictoryType == [][C24_Step]_vars

\* the methods of the outcome evaluator
EvaluatorOps == {"check_victory_conditions", "check_defeat_condition"}

C25_Step ==
    /\ last'.op \in EvaluatorOps => player' = player
    /\ (last.op \in EvaluatorOps /\ last'.op = last.op) => last'.outcome = last.outcome

WellFormed(data) ==
    /\ {"stats", "abilities", "ai_pattern"} \subseteq DOMAIN data
    /\ {"hp", "attack", "defense", "speed", "focus"} \subseteq DOMAIN data.stats

C26_Step ==
    (/\ last'.op = "start_combat"
     /\ \/ last'.arg.found = {}
        \/ \E data \in last'.arg.found : ~WellFormed(data)) =>
        /\ last'.outcome # "ok"
        /\ ~game'.combat_engine
        /\ UNCHANGED <<combat_active, combat_log>>

\* C26: creating an encounter for an identifier the loaded catalog lacks,
\* or for a malformed template, fails and yields no encounter.
C26_ConstructionFails == [][C26_Step]_vars

\* C27: after any sequence of equip_accessory, unequip_accessory, spend_focus
\* and restore_focus calls the focus stays between 0 and max_focus.
C27_FocusInRange ==
    /\ 0 <= player.focus
    /\ player.focus <= player.max_focus

\* the steps of C28 that do not depend on what "before" means: equip_weapon,
\* unequip_weapon and equip_accessory
C28_EquipStep ==
    /\ (last'.op = "Player.equip_weapon" /\ last'.outcome = TRUE)
         => player'.attack = player'.base_attack
                             + DictGetOr(last'.arg.stats, "attack_bonus", 0)
    /\ (last'.op = "Player.unequip_weapon" /\ player.equipped_weapon # None)
         => player'.attack = player.base_attack
    /\ (last'.op = "Player.equip_accessory" /\ last'.outcome = TRUE)
         => player'.defense = player'.base_defense
                              + DictGetOr(last'.arg.stats, "defense_bonus", 0)

\* unequipping the accessory just equipped gives back the defense, speed and
\* max_focus of the player before that equip_accessory call
C28_RestoresValuesBefore ==
    (last'.op = "Player.equip_accessory" /\ last'.outcome = TRUE)
    => LET u == Player_unequip_accessory(player').p
       IN  /\ u.defense = player.defense
           /\ u.speed = player.speed
           /\ u.max_focus = player.max_focus

\* C28 as stated: equipping a weapon sets attack to base_attack + attack_bonus
\* and unequipping it restores base_attack; equipping an accessory sets
\* defense to base_defense + defense_bonus, and unequipping it restores
\* defense, speed and max_focus to the values they had before the accessory
\* was equipped.
C28_AsStated == [][C28_EquipStep /\ C28_RestoresValuesBefore]_vars

\* a player wearing no accessory has the base defense, the base speed and a
\* max_focus of 5
C28_Unadorned ==
    player.equipped_accessory = None
    => /\ player.defense = player.base_defense
       /\ player.speed = player.base_speed
       /\ player.max_focus = 5

\* unequip_accessory takes the accessory off and leaves the base defense, the
\* base speed and a max_focus of 5
C28_UnequipStep ==
    (last'.op = "Player.unequip_accessory" /\ player.equipped_accessory # None)
    => /\ player'.equipped_accessory = None
       /\ player'.defense = player.base_defense
       /\ player'.speed = player.base_speed
       /\ player'.max_focus = 5

\* C28 amended: equipping a weapon sets attack to base_attack + attack_bonus
\* and unequipping it restores base_attack; equipping an accessory sets
\* defense to base_defense + defense_bonus, and unequipping it restores
\* defense to base_defense, speed to base_speed and max_focus to 5, the values
\* of every player wearing no accessory.
C28_Equipment == []C28_Unadorned /\ [][C28_EquipStep /\ C28_UnequipStep]_vars

C28_Witness ==
    /\ last.op = "Player.unequip_accessory"
    /\ last.outcome = BronzeTalisman
    /\ player.equipped_weapon = SteamBlade
    /\ player.attack = 15
    /\ player.defense = 5
    /\ player.speed = 6
    /\ player.max_focus = 5

C29_Step ==
    last'.op = "Player.from_dict"
    => /\ player'.name = player.name
       /\ player'.hp = player.hp
       /\ player'.max_hp = player.max_hp
       /\ player'.focus = player.focus
       /\ player'.max_focus = player.max_focus
       /\ player'.inventory = player.inventory
       /\ player'.equipped_weapon = player.equipped_weapon
       /\ player'.equipped_accessory = player.equipped_accessory
       /\ player'.status_effects = player.status_effects

\* C29: a Player written with to_dict and rebuilt with from_dict from an
\* independent copy of the dictionary has the same name, hp, max_hp, focus,
\* max_focus, inventory, equipped weapon, equipped accessory and status
\* effects.
C29_RoundTrip == [][C29_Step]_vars

\* the abilities of e that can_use_ability accepts
ReadyAbilities(e) ==
    {e.abilities[i] : i \in {j \in 1..Len(e.abilities) : can_use_ability(e, e.abilities[j])}}

\* the ready abilities of e that no other ready ability out-damages
HighestDamage(e) ==
    {a \in ReadyAbilities(e) :
        \A b \in ReadyAbilities(e) :
            execute_ability(e, a).damage >= execute_ability(e, b).damage}

C30_Step ==
    (/\ last'.op = "Enemy.choose_action"
     /\ enemy.ai_pattern = "aggressive"
     /\ ChooseActionTicks)
    => IF ReadyAbilities(enemy') = {}
       THEN last'.outcome = "none"
       ELSE last'.outcome \in HighestDamage(enemy')

\* C30: under the Aggressive policy choose_action returns the ready ability
\* with the highest damage (berserker_rage before power_strike when both are
\* usable) and a basic attack only when no ability is usable.
C30_AggressivePicksHighest == [][C30_Step]_vars

\* the rule of the Tactical policy that applies to adversary e facing a
\* protagonist with the given hp and focus: 1 finish, 2 mirror, 3 repair,
\* 4 rage, 5 basic attack
TacticalRule(e, player_hp, player_focus) ==
    LET ready(a) == a \in ReadyAbilities(e)
        low      == 10 * e.hp < 4 * e.max_hp
        rules    == {1 : x \in {y \in {1} : player_hp < 30 /\ ready("power_strike")}}
                    \cup {2 : x \in {y \in {1} : player_focus >= 3 /\ ready("defensive_stance")}}
                    \cup {3 : x \in {y \in {1} : low /\ ready("repair_self")}}
                    \cup {4 : x \in {y \in {1} : low /\ ready("berserker_rage")}}
                    \cup {5}
    IN  CHOOSE r \in rules : \A q \in rules : r <= q

TacticalNames ==
    <<"power_strike", "defensive_stance", "repair_self", "berserker_rage", "none">>

C31_Step ==
    (last'.op = "Enemy.choose_action" /\ enemy.ai_pattern = "tactical"
     /\ ChooseActionTicks)
    => last'.outcome = TacticalNames[TacticalRule(enemy', player.hp, player.focus)]

\* C31: under the Tactical policy choose_action takes the first rule that
\* applies: power_strike if the protagonist's hp < 30 and it is usable, else
\* defensive_stance if the protagonist's focus >= 3 and it is usable, else,
\* with the adversary below 40% of max_hp, repair_self if usable and otherwise
\* berserker_rage if usable, else the basic attack.
C31_TacticalPriority == [][C31_Step]_vars

\* the tactician at 7 of 20 hp with repair_self cooling down, facing a
\* protagonist with 30 hp and 2 focus, has chosen berserker_rage
C31_Witness ==
    /\ last.op = "Enemy.choose_action" /\ enemy.ai_pattern = "tactical"
    /\ last.outcome = "berserker_rage"
    /\ player.hp = 30 /\ player.focus = 2
    /\ enemy.hp = 7 /\ enemy.max_hp = 20
    /\ DictHas(enemy.ability_cooldowns, "repair_self")

\* the extra reduction of the armor plating
ArmorPlating == 2

C32_Step ==
    enemy.id = "clockwork_sentinel"
    => /\ enemy'.defense = enemy.defense
       /\ last'.op = "Enemy.take_damage"
          => /\ last'.outcome =
                    (IF last'.arg - (enemy.defense + ArmorPlating) >= 1
                     THEN last'.arg - (enemy.defense + ArmorPlating) ELSE 1)
             /\ enemy'.hp = (IF enemy.hp >= last'.outcome
                             THEN enemy.hp - last'.outcome ELSE 0)

\* C32: for the ClockworkSentinel incoming damage resolves to
\* max(1, damage - (defense + 2)) with hp clamped at 0, and no number of
\* damage resolutions (or other calls) changes the stored defense.
C32_ArmorAtResolution == [][C32_Step]_vars

\* the sentinel (defense 3, hp 10) hit for 10 and then for 20: 5 taken, then
\* 15 resolved against the remaining 5 hp
C32_Witness ==
    /\ enemy.id = "clockwork_sentinel"
    /\ last.op = "Enemy.take_damage" /\ last.arg = 20 /\ last.outcome = 15
    /\ calls = 2
    /\ enemy.hp = 0 /\ enemy.defense = 3

C33_Step ==
    /\ (player.hp = 0 /\ last'.op \in PlayerOps)
         => (~Completed /\ UNCHANGED EngineState)
    /\ (enemy.hp = 0 /\ last'.op = "enemy_turn")
         => (~Completed /\ UNCHANGED EngineState)

\* C33: a combatant at 0 hp is terminal: no call resolves an action of it (no
\* damage dealt, no ability or item used, no action line logged), also in an
\* encounter created for a protagonist who is already at 0 hp.
C33_DefeatedIsTerminal == [][C33_Step]_vars

\* C34: whenever an encounter has concluded, with a protagonist win, an
\* adversary win or a draw, the controller has discarded it: no concluded
\* encounter is attached to the controller.
C34_ConcludedIsDiscarded == ~combat_active => ~game.combat_engine

\* the adversary's basic attack has been resolved in this step
C35_EnemyBasicAttack ==
    last'.op = "enemy_turn" /\ last'.arg = "none" /\ last'.outcome = "ok"

\* the berserker effect is in the set choose_action leaves active: it is
\* there with more than the one turn the tick of choose_action takes off
C35_BerserkerActive ==
    \E i \in 1..Len(enemy.status_effects) :
        enemy.status_effects[i][1] = "berserker" /\ enemy.status_effects[i][2] > 1

C35_Step ==
    C35_EnemyBasicAttack
    => /\ ~C35_BerserkerActive
       /\ player'.total_damage_taken - player.total_damage_taken
              >= Max(1, enemy.attack - player.defense)
       /\ player' = Player_update_status_effects(
                        Player_take_damage(player, enemy.attack).p)

\* C35: whenever the adversary resolves a basic attack the berserker effect
\* is not active (the 3 turns set by berserker_rage are used up by two
\* _end_turn ticks and the tick of the next choose_action), so the damage
\* passed to the protagonist is the adversary's base attack.
C35_NoRagedBasicAttack == [][C35_Step]_vars

\* the furnace brute has used power_strike, then berserker_rage, and has now
\* resolved a basic attack
C35_Witness ==
    /\ last.op = "enemy_turn" /\ last.arg = "none" /\ last.outcome = "ok"
    /\ enemy.id = "furnace_brute" /\ enemy.focus = 0
    /\ DictHas(enemy.ability_cooldowns, "berserker_rage")
    /\ ~DictHas(enemy.status_effects, "berserker")

C36_Step ==
    ~combat_active
    => /\ ~combat_active'
       /\ last'.op \in PlayerOps \cup {"enemy_turn"}
       /\ player' = player
       /\ enemy' = enemy
       /\ current_turn' = current_turn
       /\ combat_log' = combat_log

\* C36: conclusion is absorbing: once combat_active is false it stays false,
\* and every later call of player_attack, player_use_ability, player_use_item
\* or enemy_turn leaves both combatants (hp, focus, effects, cooldowns,
\* inventory, counters), the turn counter and the log as they are.
C36_ConclusionAbsorbing == [][C36_Step]_vars

\* an enemy_turn call made on a concluded encounter that the protagonist won
C36_Witness ==
    /\ ~combat_active
    /\ last.op = "enemy_turn" /\ last.outcome = "not_enemy_turn"
    /\ enemy.hp = 0 /\ player.hp > 0
    /\ combat_log[Len(combat_log)] \in {"enemy_defeated", "loot_dropped"}

\* the number of successful adversary ability uses the log records
EnemyAbilityUses ==
    Cardinality({i \in 1..Len(combat_log) : combat_log[i] = "enemy_ability"})

\* the uses so far have cost at least 1 focus each out of the starting focus
C37_UsesPaid ==
    /\ enemy.focus >= 0
    /\ EnemyAbilityUses <= enemy.max_focus - enemy.focus
    /\ EnemyAbilityUses <= enemy.max_focus

C37_Step ==
    /\ enemy'.focus <= enemy.focus
    /\ enemy'.max_focus = enemy.max_focus
    /\ (last'.op = "enemy_turn" /\ last'.outcome = "ok" /\ last'.arg # "none")
         => enemy'.focus <= enemy.focus - 1

\* C37: the adversary's focus never increases during an encounter and every
\* successful adversary ability use lowers it by at least 1, so the number of
\* successful adversary ability uses is at most its starting focus.
C37_FocusBoundsAbilityUses == []C37_UsesPaid /\ [][C37_Step]_vars

\* an adversary that has spent its whole starting focus of 2 on two uses
C37_Witness ==
    /\ enemy.max_focus = 2 /\ enemy.focus = 0
    /\ EnemyAbilityUses = 2
    /\ last.op = "enemy_turn" /\ last.outcome = "ok" /\ last.arg # "none"

\* the step is an action whose termination check finds the adversary at 0 hp
\* and the protagonist alive
C38_Victory ==
    /\ Completed
    /\ combat_active
    /\ enemy'.hp = 0
    /\ player'.hp > 0

C38_Step ==
    player'.enemies_defeated =
        player.enemies_defeated + (IF C38_Victory THEN 1 ELSE 0)

\* C38: enemies_defeated goes up by exactly 1 on the action whose termination
\* check finds the adversary at 0 hp and the protagonist alive, and no other
\* engine operation changes it: not a loss, not a draw, not a rejected action
\* and not a call on the concluded encounter.
C38_EnemiesDefeated == [][C38_Step]_vars

\* the protagonist has won with a basic attack and has been credited once
C38_Witness ==
    /\ ~combat_active
    /\ last.op = "player_attack" /\ last.outcome = "ok"
    /\ enemy.hp = 0 /\ player.hp > 0
    /\ player.enemies_defeated = 1

\* the adversary has no dodge trait
NoDodge == enemy.id # "rogue_automaton"

C39_Step ==
    (last'.op = "player_attack" /\ Completed /\ NoDodge)
    => enemy'.hp <= enemy.hp - 1

\* C39: against an adversary without a dodge trait, with a basic attack on
\* each protagonist turn and each adversary turn eventually run, the
\* encounter eventually concludes; every protagonist attack takes at least 1
\* hp off the adversary.
C39_DuelConcludes == (NoDodge => <>(~combat_active)) /\ [][C39_Step]_vars

\* the steam golem (defense 9) fought with basic attacks of 1 damage each for
\* more than 40 turns, until the encounter concluded
C39_Witness ==
    /\ NoDodge /\ enemy.id = "steam_golem" /\ enemy.defense = 9
    /\ ~combat_active
    /\ current_turn >= 40
    /\ player.total_damage_dealt >= 20

====
